---- MODULE Spec2Model ----
(***************************************************************************)
(* Model of the Global Change Notifier (src/src/global_notifier.cpp):      *)
(* the admin feed (AdminRealmManager), the registry (register_realm), the  *)
(* work queue and its worker (calculate) and the delivery pipeline         *)
(* (on_change / pause / resume).                                           *)
(*                                                                         *)
(* Threads: the host event loop (hostpc), the worker (workpc), and the     *)
(* storage engine's commit threads (the Commit action, which runs the      *)
(* transaction callback).  Each action is one atomic region of the code:   *)
(* a handler body, or the part of it between two points where another      *)
(* thread can observe or change shared state.                              *)
(***************************************************************************)
EXTENDS Integers, Sequences, FiniteSets, TLC

(* ---------------------------------------------------------------- bounds *)
MaxCommits == 3     \* commits made to the database files, in total
MaxLiveCommits == 2 \* the same, in the specifications with fairness conditions
MaxVersion == 3     \* versions of the notification whose getters are called
MaxCalls == 3       \* getter calls made on one notification
MaxStatus == 2      \* largest status code the server writes to a subscription row
MaxServerWrites == 2 \* writes of the server to the subscription row
MaxCallbackCalls == 2 \* calls of pause() and resume() one realm_changed makes

(* ------------------------------------------------------------- constants *)
Ids == {"a", "b"}
\* the entries the external process creates: id and realm name
AdminEntries == {[id |-> "a", path |-> "p"], [id |-> "b", path |-> "secret"]}
CommitKinds == {"user", "meta"}
NoName == "<none>"
UnsetVersion == 0   \* VersionID{}: differs from every real version (>= 1)
NoJob == [realm |-> [file |-> "", version |-> UnsetVersion], target_version |-> UnsetVersion]
EmptyChangeSet == [insertions |-> {}, modifications |-> {}, deletions |-> {}]
NoNotification == [old |-> UnsetVersion, new |-> UnsetVersion,
                   realm |-> [file |-> "", version |-> UnsetVersion], changes |-> <<>>]
NullRealm == 0      \* a null SharedRealm

\* enum class SubscriptionState
UNDEFINED == -3
NOT_SUPPORTED == -2
ERROR == -1
UNINITIALIZED == 0
INITIALIZED == 1
SubscriptionStates == {UNDEFINED, NOT_SUPPORTED, ERROR, UNINITIALIZED, INITIALIZED}

\* the object classes of the active schema, and those register_query is called with
SchemaClasses == {"Dog"}
ObjectClasses == {"Dog", "Cat"}
Queries == {"age > 3"}
ErrorMessages == {"", "bad query"}
\* the name of the link list column for an object class
MatchesProperty(object_class) == <<object_class, "_matches">>
ResultSetsColumns(object_class) ==
    {"matches_property", "query", "status", "error_message", "query_parse_counter",
     MatchesProperty(object_class)}
NoError == [what |-> "<null>"]
EmptyResults == [list |-> FALSE, rows |-> {}]
NoCall == [object_class |-> "", query |-> ""]
NotifierError == [what |-> "notifier failed"]
NoStatus == [state |-> UNINITIALIZED, error |-> "<not called>"]

VARIABLES
    adminTable,     \* the RealmFile table: sequence of [id, path]
    usedIds,        \* ids ever inserted (ids are primary keys, never reused)
    feedChanges,    \* the change-set passed to the running admin notification callback
    wasFirst,       \* m_first as the running admin notification callback found it
    started,        \* GlobalNotifier::start() has run
    m_first,        \* AdminRealmManager::m_first
    db,             \* per file: the sequence of commits (version = length + 1)
    m_listen_entries,     \* id -> coordinator
    transaction_callback, \* coordinators that have the transaction callback installed
    m_work_queue,
    m_pending_deliveries,
    m_waiting,
    m_shutdown,
    signal,         \* EventLoopSignal: a notify() is pending on the host loop
    workpc,         \* worker thread: "none", "wait", "calc", "exited"
    next,           \* the job the worker popped
    hostpc,         \* host thread: "idle", "admin", "install", "drain", "join", "destroyed"
    todo,           \* rows the admin notification callback has still to report
    drainBy,        \* who entered on_change: "signal" or "resume"
    delivered,      \* per file: the notifications passed to realm_changed, in order
    jobsPushed,     \* (file, old, new) of every job the transaction callback pushed
    lastFilter,     \* the name the latest register_realm call passed to filter_callback
    everReported,   \* ids the admin callback has been invoked for
    rejected,       \* ids for which filter_callback returned false
    atStart,        \* ids of the rows the admin table had when start() ran
    resumeMark,     \* during resume(): what is left of the queue resume() found
    note,           \* the ChangeNotification a consumer holds
    handles,        \* the open handles: handles[1] is note's m_realm, the others
                    \* are those the getters opened, in order
    snapLog,        \* the getter calls made on note: [call, ret], ret an index
                    \* of handles or NullRealm
    sync_config,    \* realm->config().sync_config: "absent", "full" or "partial"
    resultSets,     \* the rows of the __ResultSets table
    resultSetsColumns, \* the columns of the __ResultSets table ({}: no such table)
    writeTxns,      \* write transactions begun on the database by register_query
    is_in_transaction, \* Realm::is_in_transaction of the database
    observer,       \* the row's notification callback: "none", "attached", "detached"
    toObserve,      \* what the observer has to deliver: "none", "change" or "error"
    queryCall,      \* the arguments register_query was called with
    cbLog,          \* the invocations of the user callback: [results, error]
    thrown,         \* the exception register_query ended with, or "none"
    lastStatus,     \* what the latest get_query_status call returned
    serverWrites,   \* number of writes the server made
    m_work_queue_mutex,    \* the thread that holds the work-queue mutex, or "free"
    m_deliver_queue_mutex, \* the thread that holds the delivery-queue mutex, or "free"
    pc,             \* per thread: where it is in the code
    callbackArgs,   \* per file: (old_version, new_version) of the running transaction callback
    registering,    \* the realm register_realm has opened: file and version
    change,         \* the local `change` of on_change
    notified,       \* m_work_queue_cv: the waiting worker has been notified
    pushLog,        \* the jobs pushed on the work queue, in the order of the pushes
    popLog,         \* the jobs the worker popped, in the order of the pops
    stack           \* the host's active calls of on_change and realm_changed

adminVars == <<adminTable, usedIds, m_first, feedChanges, wasFirst>>
regVars == <<m_listen_entries, transaction_callback>>
queueVars == <<m_work_queue, m_pending_deliveries, signal>>
workVars == <<workpc, next>>
hostVars == <<hostpc, todo, drainBy, resumeMark>>
logVars == <<delivered, jobsPushed, lastFilter, everReported, rejected, atStart>>
notifierVars == <<adminVars, regVars, queueVars, workVars, hostVars, logVars,
                  started, db, m_waiting, m_shutdown>>
snapVars == <<note, handles, snapLog>>
queryVars == <<sync_config, resultSets, resultSetsColumns, writeTxns, is_in_transaction,
               observer, toObserve,
               queryCall, cbLog, thrown, lastStatus, serverWrites>>
threadVars == <<m_work_queue_mutex, m_deliver_queue_mutex, pc, callbackArgs, registering,
                change, notified, pushLog, popLog>>
clientVars == <<snapVars, queryVars, threadVars, stack>>
vars == <<notifierVars, clientVars>>

(* ------------------------------------------------- the storage primitives *)
\* the table a commit of the given kind writes a row to
TouchedTable(kind) ==
    IF kind = "user" THEN {"class_T"} ELSE IF kind = "meta" THEN {"pk"} ELSE {}

current_version(f) == Len(db[f]) + 1

\* the tables of the group of file f at version v
TablesAt(f, v) == UNION {TouchedTable(db[f][i]) : i \in 1..(v - 1)}

\* Group::is_empty at version v
is_empty(f, v) == TablesAt(f, v) = {}

\* number of rows of table t at version v
RowsAt(f, t, v) == Cardinality({i \in 1..(v - 1) : t \in TouchedTable(db[f][i])})

\* transaction::advance with track_all: one entry per table of the group
advance(f, from, to) ==
    [t \in TablesAt(f, to) |->
        [insertions |-> RowsAt(f, t, from)..(RowsAt(f, t, to) - 1),
         modifications |-> {}, deletions |-> {}]]

\* ObjectStore::object_type_for_table_name: the "class_" prefix stripped
object_type_for_table_name(t) == IF t = "class_T" THEN "T" ELSE NoName

\* CollectionChangeSet::empty / CollectionChangeBuilder::empty
empty(c) == c.insertions = {} /\ c.modifications = {} /\ c.deletions = {}

\* the host's admission filter (Callback::filter_callback)
filter_callback(name) == name # "secret"

(* ------------------------------------------------------------------ Init *)
NotifierInit ==
    /\ adminTable = <<>>
    /\ usedIds = {}
    /\ feedChanges = EmptyChangeSet
    /\ wasFirst = FALSE
    /\ started = FALSE
    /\ m_first = TRUE
    /\ db = [f \in Ids |-> <<>>]
    /\ m_listen_entries = <<>>
    /\ transaction_callback = {}
    /\ m_work_queue = <<>>
    /\ m_pending_deliveries = <<>>
    /\ m_waiting = FALSE
    /\ m_shutdown = FALSE
    /\ signal = FALSE
    /\ workpc = "none"
    /\ next = NoJob
    /\ hostpc = "idle"
    /\ todo = <<>>
    /\ drainBy = "signal"
    /\ delivered = [f \in Ids |-> <<>>]
    /\ jobsPushed = {}
    /\ lastFilter = NoName
    /\ everReported = {}
    /\ rejected = {}
    /\ atStart = {}
    /\ resumeMark = <<>>

\* no consumer holds a notification
SnapIdle ==
    /\ note = NoNotification
    /\ handles = <<>>
    /\ snapLog = <<>>

\* no database with a sync configuration is open
QueryIdle ==
    /\ sync_config = "absent"
    /\ resultSets = <<>>
    /\ resultSetsColumns = {}
    /\ writeTxns = 0
    /\ is_in_transaction = FALSE
    /\ observer = "none"
    /\ toObserve = "none"
    /\ queryCall = NoCall
    /\ cbLog = <<>>
    /\ thrown = "none"
    /\ lastStatus = NoStatus
    /\ serverWrites = 0

\* the threads of the lock-level description
Threads == {"host", "worker"} \cup Ids
NoRealm == [file |-> "", version |-> UnsetVersion]
NoArgs == [old_version |-> UnsetVersion, new_version |-> UnsetVersion]

\* no thread is described at the level of its locks
ThreadsIdle ==
    /\ m_work_queue_mutex = "free"
    /\ m_deliver_queue_mutex = "free"
    /\ pc = [t \in Threads |-> "idle"]
    /\ callbackArgs = [f \in Ids |-> NoArgs]
    /\ registering = NoRealm
    /\ change = NoNotification
    /\ notified = FALSE
    /\ pushLog = <<>>
    /\ popLog = <<>>

Init == NotifierInit /\ SnapIdle /\ QueryIdle /\ ThreadsIdle /\ stack = <<>>

(* ------------------------------------------- the external admin process *)
\* AdminRealmManager::create_realm, run by an administrative client before
\* the notifier is started: one write transaction that adds a row
create_realm(id, name) ==
    /\ ~started
    /\ id \notin usedIds
    /\ adminTable' = Append(adminTable, [id |-> id, path |-> name])
    /\ usedIds' = usedIds \cup {id}
    /\ UNCHANGED <<clientVars, m_first, feedChanges, wasFirst, regVars, queueVars,
                   workVars, hostVars, logVars, started, db, m_waiting, m_shutdown>>

\* the sequences of entries the external process can add, with unused ids
RECURSIVE NewRows(_)
NewRows(used) ==
    {<<>>} \cup
    UNION {{<<e>> \o rest : rest \in NewRows(used \cup {e.id})} :
           e \in {x \in AdminEntries : x.id \notin used}}

\* What the external process wrote since the host's handle on the admin
\* database was last advanced: it deleted the last row or not (a row is
\* deleted only after the feed has reported it), rewrote some of the
\* remaining rows, and added rows.
Batches(table, used, first) ==
    {[del |-> d, mod |-> m, new |-> r] :
        d \in {k \in {0, 1} : k <= Len(table) /\ (k = 1 => ~first)},
        m \in SUBSET (1..Len(table)),
        r \in NewRows(used)}

\* the table after the batch
TableAfter(table, w) == SubSeq(table, 1, Len(table) - w.del) \o w.new

\* the change-set the results notifier computes for the batch
ChangeSetOf(table, w) ==
    [insertions |-> (Len(table) - w.del + 1)..(Len(table) - w.del + Len(w.new)),
     modifications |-> w.mod \ {k \in {Len(table)} : w.del = 1},
     deletions |-> {k \in {Len(table)} : w.del = 1}]

(* ------------------------------------------------------------ admin feed *)
\* GlobalNotifier::start: installs the admin notification and spawns the worker
start ==
    /\ ~started
    /\ hostpc = "idle"
    /\ started' = TRUE
    /\ workpc' = "wait"
    /\ atStart' = {adminTable[k].id : k \in 1..Len(adminTable)}
    /\ UNCHANGED <<clientVars, adminVars, regVars, queueVars, next, hostVars, delivered, jobsPushed,
                   lastFilter, everReported, rejected, db, m_waiting, m_shutdown>>

\* ascending sequence of the elements of a set of indexes (IndexSet::as_indexes)
RECURSIVE as_indexes(_)
as_indexes(S) ==
    IF S = {} THEN <<>>
    ELSE LET m == CHOOSE x \in S : \A y \in S : x <= y
         IN <<m>> \o as_indexes(S \ {m})

\* the rows the admin notification callback reports for one delivery
RowsToReportNotFirst(c, first, table) ==
    IF empty(c)
    THEN table
    ELSE [k \in 1..Cardinality(c.insertions) |-> table[as_indexes(c.insertions)[k]]]
RowsToReportAll(c, first, table) == table
RowsToReport(c, first, table) ==
    IF empty(c) \/ first
    THEN table
    ELSE [k \in 1..Cardinality(c.insertions) |-> table[as_indexes(c.insertions)[k]]]

\* the notification callback goes on with the rows left, or returns
CallbackLoop(rest) ==
    /\ todo' = rest
    /\ hostpc' = IF rest = <<>> THEN "idle" ELSE "admin"
    /\ feedChanges' = IF rest = <<>> THEN EmptyChangeSet ELSE feedChanges
    /\ wasFirst' = IF rest = <<>> THEN FALSE ELSE wasFirst

\* The host loop advances m_realm over what was written and runs the
\* notification callback of AdminRealmManager::start, up to its loop.
AdminDeliver(w) ==
    /\ started
    /\ hostpc = "idle"
    /\ adminTable' = TableAfter(adminTable, w)
    /\ usedIds' = usedIds \cup {w.new[k].id : k \in 1..Len(w.new)}
    /\ LET c == ChangeSetOf(adminTable, w)
           rows == RowsToReport(c, m_first, adminTable')
       IN /\ todo' = rows
          /\ hostpc' = "admin"
          /\ feedChanges' = c
          /\ wasFirst' = m_first
          /\ m_first' = IF empty(c) \/ m_first THEN FALSE ELSE m_first
    /\ lastFilter' = NoName
    /\ UNCHANGED <<clientVars, regVars, queueVars, workVars, drainBy, resumeMark, delivered, jobsPushed,
                   everReported, rejected, atStart, started, db, m_waiting, m_shutdown>>

\* the notification callback had no row to report and returns
AdminReturn ==
    /\ hostpc = "admin"
    /\ todo = <<>>
    /\ CallbackLoop(<<>>)
    /\ UNCHANGED <<clientVars, adminTable, usedIds, m_first, regVars, queueVars, workVars, drainBy,
                   resumeMark, logVars, started, db, m_waiting, m_shutdown>>

(* -------------------------------------------------------------- registry *)
\* the seed notification of register_realm
SeedNotificationWithOld(f, version) ==
    [old |-> version, new |-> version,
     realm |-> [file |-> f, version |-> version], changes |-> <<>>]
SeedNotification(f, version) ==
    [old |-> UnsetVersion, new |-> version,
     realm |-> [file |-> f, version |-> version], changes |-> <<>>]

\* m_pending_deliveries.push
DeliverQueuePushFront(q, n) == <<n>> \o q
DeliverQueuePush(q, n) == Append(q, n)

\* the two early returns of register_realm
RegisterDecisionNoFilter(entries, id, name) ==
    IF id \in DOMAIN entries THEN "listening" ELSE "register"
RegisterDecisionNoLookup(entries, id, name) ==
    IF ~filter_callback(name) THEN "filtered" ELSE "register"
RegisterDecision(entries, id, name) ==
    IF id \in DOMAIN entries THEN "listening"
    ELSE IF ~filter_callback(name) THEN "filtered"
    ELSE "register"

\* one iteration of the callback loop: register_realm(id, name) up to the
\* point where the transaction callback is installed
register_realm ==
    /\ hostpc = "admin"
    /\ todo # <<>>
    /\ LET id == Head(todo).id
           name == Head(todo).path
           decision == RegisterDecision(m_listen_entries, id, name)
       IN
       /\ everReported' = everReported \cup {id}
       /\ lastFilter' = IF decision = "listening" THEN NoName ELSE name
       /\ rejected' = IF decision = "filtered" THEN rejected \cup {id} ELSE rejected
       /\ IF decision # "register"
          THEN /\ CallbackLoop(Tail(todo))
               /\ UNCHANGED <<m_listen_entries, m_pending_deliveries, signal>>
          ELSE /\ m_listen_entries' =
                    [i \in DOMAIN m_listen_entries \cup {id} |->
                        IF i = id THEN id ELSE m_listen_entries[i]]
               /\ IF is_empty(id, current_version(id))
                  THEN UNCHANGED <<m_pending_deliveries, signal>>
                  ELSE /\ m_pending_deliveries' =
                            DeliverQueuePush(m_pending_deliveries,
                                             SeedNotification(id, current_version(id)))
                       /\ signal' = TRUE
               /\ hostpc' = "install"
               /\ UNCHANGED <<todo, feedChanges, wasFirst>>
    /\ UNCHANGED <<clientVars, adminTable, usedIds, m_first, transaction_callback, m_work_queue,
                   workVars, drainBy, resumeMark, delivered, jobsPushed, atStart,
                   started, db, m_waiting, m_shutdown>>

\* the end of register_realm: coordinator->set_transaction_callback(...)
set_transaction_callback ==
    /\ hostpc = "install"
    /\ transaction_callback' = transaction_callback \cup {Head(todo).id}
    /\ CallbackLoop(Tail(todo))
    /\ UNCHANGED <<clientVars, adminTable, usedIds, m_first, m_listen_entries, queueVars, workVars,
                   drainBy, resumeMark, logVars, started, db, m_waiting, m_shutdown>>

(* ---------------------------------------------------------- commit threads *)
\* m_work_queue.push
WorkQueuePushBounded(q, job) == IF q # <<>> THEN q ELSE Append(q, job)
WorkQueuePush(q, job) == Append(q, job)

\* the transaction callback installed by register_realm: a fresh handle
\* pinned at old_version, pushed with the target version
TransactionCallback(f, old_version, new_version) ==
    /\ m_work_queue' = WorkQueuePush(m_work_queue,
                           [realm |-> [file |-> f, version |-> old_version],
                            target_version |-> new_version])
    /\ jobsPushed' = jobsPushed \cup {<<f, old_version, new_version>>}

TotalCommits == Len(db["a"]) + Len(db["b"])

\* a commit to file f seen by its coordinator, which reports (old, new) to
\* the transaction callback if one is installed. Nothing removes the
\* callback: once the notifier is destroyed its captured `this` dangles,
\* and the call either pushes onto what was the work queue or leaves no
\* trace there.
Commit(f, kind) ==
    /\ f \in usedIds
    /\ TotalCommits < MaxCommits
    /\ db' = [db EXCEPT ![f] = Append(@, kind)]
    /\ IF f \in transaction_callback
       THEN \/ TransactionCallback(f, current_version(f), current_version(f) + 1)
            \/ hostpc = "destroyed" /\ UNCHANGED <<m_work_queue, jobsPushed>>
       ELSE UNCHANGED <<m_work_queue, jobsPushed>>
    /\ UNCHANGED <<clientVars, adminVars, regVars, m_pending_deliveries, signal, workVars, hostVars,
                   delivered, lastFilter, everReported, rejected, atStart, started, m_waiting,
                   m_shutdown>>

(* ------------------------------------------------------------- the worker *)
\* calculate(): the wait on the condition variable and the pop
WorkerPop ==
    /\ workpc = "wait"
    /\ ~m_shutdown
    /\ m_work_queue # <<>>
    /\ next' = Head(m_work_queue)
    /\ m_work_queue' = Tail(m_work_queue)
    /\ workpc' = "calc"
    /\ UNCHANGED <<clientVars, adminVars, regVars, m_pending_deliveries, signal, hostVars, logVars,
                   started, db, m_waiting, m_shutdown>>

\* calculate(): if (m_shutdown) return
WorkerExitWhenDrained ==
    /\ workpc = "wait"
    /\ m_shutdown
    /\ m_work_queue = <<>>
    /\ workpc' = "exited"
    /\ UNCHANGED <<clientVars, adminVars, regVars, queueVars, next, hostVars, logVars,
                   started, db, m_waiting, m_shutdown>>
WorkerExit ==
    /\ workpc = "wait"
    /\ m_shutdown
    /\ workpc' = "exited"
    /\ UNCHANGED <<clientVars, adminVars, regVars, queueVars, next, hostVars, logVars,
                   started, db, m_waiting, m_shutdown>>

\* the loop of calculate() over info.tables: the non-empty entries whose
\* table has an object type name, keyed by that name
CollectChangesOfAllTables(info) ==
    LET kept == {t \in DOMAIN info : object_type_for_table_name(t) # NoName}
        names == {object_type_for_table_name(t) : t \in kept}
    IN [n \in names |-> info[CHOOSE t \in kept : object_type_for_table_name(t) = n]]
CollectChanges(info) ==
    LET kept == {t \in DOMAIN info :
                    ~empty(info[t]) /\ object_type_for_table_name(t) # NoName}
        names == {object_type_for_table_name(t) : t \in kept}
    IN [n \in names |-> info[CHOOSE t \in kept : object_type_for_table_name(t) = n]]

\* "nothing to notify about"
SuppressedNever(changes, group_is_empty) == FALSE
SuppressedWhateverGroup(changes, group_is_empty) == changes = <<>>
Suppressed(changes, group_is_empty) == changes = <<>> /\ ~group_is_empty

\* the notification calculate() pushes
JobNotification(job, changes) ==
    [old |-> job.realm.version, new |-> job.target_version,
     realm |-> job.realm, changes |-> changes]

\* calculate(): the computation on the popped job and the push
WorkerCalc ==
    /\ workpc = "calc"
    /\ LET f == next.realm.file
           from == next.realm.version
           changes == CollectChanges(advance(f, from, next.target_version))
       IN IF Suppressed(changes, is_empty(f, from))
          THEN UNCHANGED <<m_pending_deliveries, signal>>
          ELSE /\ m_pending_deliveries' =
                    DeliverQueuePush(m_pending_deliveries, JobNotification(next, changes))
               /\ signal' = TRUE
    /\ next' = NoJob
    /\ workpc' = "wait"
    /\ UNCHANGED <<clientVars, adminVars, regVars, m_work_queue, hostVars, logVars,
                   started, db, m_waiting, m_shutdown>>

(* ------------------------------------------------------ delivery pipeline *)
has_pending == m_pending_deliveries # <<>>

\* the loop condition and the emptiness test of on_change
CanPopWhilePaused(waiting, queue) == queue # <<>>
CanPop(waiting, queue) == ~waiting /\ queue # <<>>

\* the host loop runs the signal's callable: on_change() is entered
OnChangeEnter ==
    /\ hostpc = "idle"
    /\ signal
    /\ signal' = FALSE
    /\ hostpc' = "drain"
    /\ drainBy' = "signal"
    /\ UNCHANGED <<clientVars, adminVars, regVars, m_work_queue, m_pending_deliveries, workVars, todo,
                   resumeMark, logVars, started, db, m_waiting, m_shutdown>>

\* one iteration of on_change: pop the front and call realm_changed
OnChangePop ==
    /\ hostpc = "drain"
    /\ CanPop(m_waiting, m_pending_deliveries)
    /\ delivered' = [delivered EXCEPT ![Head(m_pending_deliveries).realm.file] =
                        Append(@, Head(m_pending_deliveries))]
    /\ resumeMark' = IF resumeMark = <<>> THEN <<>> ELSE Tail(resumeMark)
    /\ m_pending_deliveries' = Tail(m_pending_deliveries)
    /\ UNCHANGED <<clientVars, adminVars, regVars, m_work_queue, signal, workVars, hostpc, todo, drainBy,
                   jobsPushed, lastFilter, everReported, rejected, atStart, started, db,
                   m_waiting, m_shutdown>>

\* on_change returns: paused, or the queue is empty
OnChangeReturn ==
    /\ hostpc = "drain"
    /\ ~CanPop(m_waiting, m_pending_deliveries)
    /\ hostpc' = "idle"
    /\ drainBy' = "signal"
    /\ resumeMark' = <<>>
    /\ UNCHANGED <<clientVars, adminVars, regVars, queueVars, workVars, todo, logVars,
                   started, db, m_waiting, m_shutdown>>

pause ==
    /\ hostpc = "idle"
    /\ ~m_waiting
    /\ m_waiting' = TRUE
    /\ UNCHANGED <<clientVars, adminVars, regVars, queueVars, workVars, hostVars, logVars,
                   started, db, m_shutdown>>

\* resume(): clears the flag and calls on_change() on the calling thread
ResumeWithoutDrain ==
    /\ hostpc = "idle"
    /\ m_waiting
    /\ m_waiting' = FALSE
    /\ UNCHANGED <<clientVars, adminVars, regVars, queueVars, workVars, hostVars, logVars,
                   started, db, m_shutdown>>
resume ==
    /\ hostpc = "idle"
    /\ m_waiting
    /\ m_waiting' = FALSE
    /\ hostpc' = "drain"
    /\ drainBy' = "resume"
    /\ resumeMark' = m_pending_deliveries
    /\ UNCHANGED <<clientVars, adminVars, regVars, queueVars, workVars, todo, logVars,
                   started, db, m_shutdown>>

(* --------------------------------------------------------------- shutdown *)
\* ~GlobalNotifier: set m_shutdown and notify the condition variable
Destructor ==
    /\ hostpc = "idle"
    /\ m_shutdown' = TRUE
    /\ hostpc' = "join"
    /\ UNCHANGED <<clientVars, adminVars, regVars, queueVars, workVars, todo, drainBy, resumeMark,
                   logVars, started, db, m_waiting>>

\* ~GlobalNotifier: the join (skipped if start() never ran); the queues are
\* destroyed with the notifier
Join ==
    /\ hostpc = "join"
    /\ workpc \in {"none", "exited"}
    /\ hostpc' = "destroyed"
    /\ m_pending_deliveries' = <<>>
    /\ m_work_queue' = <<>>
    /\ signal' = FALSE
    /\ UNCHANGED <<clientVars, adminVars, regVars, workVars, todo, drainBy, resumeMark, logVars,
                   started, db, m_waiting, m_shutdown>>

Next ==
    \/ \E e \in AdminEntries : create_realm(e.id, e.path)
    \/ start
    \/ \E w \in Batches(adminTable, usedIds, m_first) : AdminDeliver(w)
    \/ AdminReturn
    \/ register_realm
    \/ set_transaction_callback
    \/ \E f \in Ids, kind \in CommitKinds : Commit(f, kind)
    \/ WorkerPop
    \/ WorkerExit
    \/ WorkerCalc
    \/ OnChangeEnter
    \/ OnChangePop
    \/ OnChangeReturn
    \/ pause
    \/ resume
    \/ Destructor
    \/ Join

Spec == Init /\ [][Next]_vars

\* The worker thread and a thread blocked in join() are scheduled: the
\* worker goes on when its wait can return or its computation is under way,
\* and the join returns once the worker has exited.
WorkerFairness ==
    /\ WF_vars(WorkerPop)
    /\ WF_vars(WorkerCalc)
    /\ WF_vars(WorkerExit)
    /\ WF_vars(Join)

\* Next with fewer commits
LiveNext ==
    \/ \E e \in AdminEntries : create_realm(e.id, e.path)
    \/ start
    \/ \E w \in Batches(adminTable, usedIds, m_first) : AdminDeliver(w)
    \/ AdminReturn
    \/ register_realm
    \/ set_transaction_callback
    \/ \E f \in Ids, kind \in CommitKinds : TotalCommits < MaxLiveCommits /\ Commit(f, kind)
    \/ WorkerPop
    \/ WorkerExit
    \/ WorkerCalc
    \/ OnChangeEnter
    \/ OnChangePop
    \/ OnChangeReturn
    \/ pause
    \/ resume
    \/ Destructor
    \/ Join

ShutdownSpec == Init /\ [][LiveNext]_vars /\ WorkerFairness

\* The host event loop runs on_change at least once after any number of
\* notify() calls, though it has other callbacks to run; a callback that
\* was entered runs to its end.
HostFairness ==
    /\ SF_vars(OnChangeEnter)
    /\ WF_vars(OnChangePop)
    /\ WF_vars(OnChangeReturn)
    /\ WF_vars(AdminReturn)
    /\ WF_vars(register_realm)
    /\ WF_vars(set_transaction_callback)

DeliverySpec == Init /\ [][LiveNext]_vars /\ HostFairness

(* ------------------------------------------- a name under a second id *)
\* an entry with the name of the entry the filter rejects, under an id of
\* its own
SameNameEntry == [id |-> "c", path |-> "secret"]

\* an administrative client has added SameNameEntry and the host loop
\* delivers the insertion
AdminDeliverSameName ==
    /\ SameNameEntry.id \notin usedIds
    /\ AdminDeliver([del |-> 0, mod |-> {}, new |-> <<SameNameEntry>>])

FilterNext ==
    \/ Next
    \/ AdminDeliverSameName

FilterSpec == Init /\ [][FilterNext]_vars

(* ------------------------------------------------ errors in the worker *)
\* calculate(): Realm::make_shared_realm, begin_read or advance throws.
\* Nothing in calculate() or in the thread's function catches, so the
\* exception leaves the thread and std::terminate ends the process.
WorkerThrows ==
    /\ workpc = "calc"
    /\ workpc' = "terminated"
    /\ UNCHANGED <<clientVars, adminVars, regVars, queueVars, next, hostVars, logVars,
                   started, db, m_waiting, m_shutdown>>

\* Next, with storage errors in the worker; no thread runs in a process
\* that was terminated
FailNext ==
    \/ workpc # "terminated" /\ Next
    \/ WorkerThrows

FailSpec == Init /\ [][FailNext]_vars

(* ------------------------------------------- ChangeNotification's getters *)
\* the notifications the pipeline makes: seeds and those of jobs
SnapNotifications ==
    {SeedNotification(f, v) : f \in Ids, v \in 1..MaxVersion}
    \cup {JobNotification([realm |-> [file |-> f, version |-> v],
                           target_version |-> w], c) :
             f \in Ids, v \in 1..MaxVersion, w \in 2..MaxVersion,
             c \in {<<>>, [T |-> [insertions |-> {0}, modifications |-> {},
                                  deletions |-> {}]]}}

\* Realm::get_shared_realm on m_realm's config with cache off, then
\* begin_read at the version: a handle that was not open before
OpenFresh(hs, version) ==
    [handles |-> Append(hs, [file |-> hs[1].file, version |-> version]),
     ret |-> Len(hs) + 1]

\* ChangeNotification::get_old_realm
GetOldRealmUnchecked(n, hs) == OpenFresh(hs, n.old)
GetOldRealm(n, hs) ==
    IF n.old = UnsetVersion
    THEN [handles |-> hs, ret |-> NullRealm]
    ELSE OpenFresh(hs, n.old)

\* ChangeNotification::get_new_realm
GetNewRealm(n, hs) == OpenFresh(hs, n.new)

get_old_realm ==
    /\ note # NoNotification
    /\ Len(snapLog) < MaxCalls
    /\ LET r == GetOldRealm(note, handles)
       IN /\ handles' = r.handles
          /\ snapLog' = Append(snapLog, [call |-> "old", ret |-> r.ret])
    /\ UNCHANGED <<note, notifierVars, queryVars, threadVars, stack>>

get_new_realm ==
    /\ note # NoNotification
    /\ Len(snapLog) < MaxCalls
    /\ LET r == GetNewRealm(note, handles)
       IN /\ handles' = r.handles
          /\ snapLog' = Append(snapLog, [call |-> "new", ret |-> r.ret])
    /\ UNCHANGED <<note, notifierVars, queryVars, threadVars, stack>>

\* a consumer holds a notification, whose m_realm is the one open handle
SnapInit ==
    /\ NotifierInit
    /\ note \in {n \in SnapNotifications : n.old < n.new}
    /\ handles = <<note.realm>>
    /\ snapLog = <<>>
    /\ QueryIdle
    /\ ThreadsIdle
    /\ stack = <<>>

SnapNext == get_old_realm \/ get_new_realm

SnapSpec == SnapInit /\ [][SnapNext]_vars

(* ------------------------------------------ partial sync (partial_sync.cpp) *)
\* status_code_to_state of subscription_state.hpp
status_code_to_state(status_code) ==
    CASE status_code = -3 -> UNDEFINED
      [] status_code = -2 -> NOT_SUPPORTED
      [] status_code = -1 -> ERROR
      [] status_code = 0 -> UNINITIALIZED
      [] status_code = 1 -> INITIALIZED
      [] OTHER -> UNDEFINED

\* state_to_status_code: the cast of the enumerator to int
state_to_status_code(state) == state

\* update_schema: the additive change that gives __ResultSets its columns
update_schema(columns, object_class) == columns \cup ResultSetsColumns(object_class)

\* the checks register_query starts with: the exception thrown, or "none"
RegisterQueryCheckSchemaFirst(config, object_class) ==
    IF object_class \notin SchemaClasses THEN "logic_error: type not in schema"
    ELSE IF config # "partial" THEN "logic_error: not partially synced"
    ELSE "none"
RegisterQueryCheck(config, object_class) ==
    IF config # "partial" THEN "logic_error: not partially synced"
    ELSE IF object_class \notin SchemaClasses THEN "logic_error: type not in schema"
    ELSE "none"

\* the row Object::create adds; matches is the content of the link list
\* column the row's matches_property names
NewSubscription(object_class, query) ==
    [name |-> query, matches_property |-> MatchesProperty(object_class),
     query |-> query, status |-> 0, error_message |-> "",
     query_parse_counter |-> 0, matches |-> {}]

\* the calls of the write transaction of register_query that can throw
TransactionFaults ==
    {"none", "update_schema", "ObjectSchema", "Object::create", "commit_transaction"}

\* Realm::begin_transaction, commit_transaction and cancel_transaction on
\* a group with the given columns and rows of __ResultSets
BeginTransaction(columns, rows) ==
    [persisted |-> [columns |-> columns, rows |-> rows],
     working |-> [columns |-> columns, rows |-> rows],
     in_transaction |-> TRUE]
CommitTransaction(t) == [t EXCEPT !.persisted = t.working, !.in_transaction = FALSE]
CancelTransaction(t) == [t EXCEPT !.working = t.persisted, !.in_transaction = FALSE]

\* the scope exit of the transaction block
ScopeExitNoCancel(t) == t
ScopeExit(t) == IF t.in_transaction THEN CancelTransaction(t) ELSE t

\* the transaction block of register_query, up to the call that throws:
\* update_schema throws before it changes the table, the ObjectSchema
\* constructor after the schema update, Object::create after it made the
\* row, commit_transaction before anything is persisted
RegisterQueryTransaction(columns, rows, object_class, query, fault) ==
    LET begun == BeginTransaction(columns, rows)
        updated == [begun EXCEPT !.working.columns = update_schema(@, object_class)]
        created == [updated EXCEPT
                       !.working.rows = Append(@, NewSubscription(object_class, query))]
    IN CASE fault = "update_schema" -> begun
         [] fault = "ObjectSchema" -> updated
         [] fault = "Object::create" -> created
         [] fault = "commit_transaction" -> created
         [] OTHER -> CommitTransaction(created)

\* register_query(realm, object_class, query, callback), called once;
\* fault is the call of the transaction block that throws, if any
RegisterQueryCall(object_class, query, fault) ==
    /\ thrown = "none"
    /\ observer = "none"
    /\ queryCall' = [object_class |-> object_class, query |-> query]
    /\ LET failure == RegisterQueryCheck(sync_config, object_class)
       IN IF failure # "none"
          THEN /\ thrown' = failure
               /\ UNCHANGED <<resultSets, resultSetsColumns, writeTxns, is_in_transaction,
                              observer, toObserve>>
          ELSE LET t == ScopeExit(RegisterQueryTransaction(resultSetsColumns, resultSets,
                                                          object_class, query, fault))
               IN /\ writeTxns' = writeTxns + 1
                  /\ resultSetsColumns' = t.working.columns
                  /\ resultSets' = t.working.rows
                  /\ is_in_transaction' = t.in_transaction
                  /\ IF fault = "none"
                     THEN /\ observer' = "attached"
                          /\ toObserve' = "change"
                          /\ UNCHANGED thrown
                     ELSE /\ thrown' = "runtime_error"
                          /\ UNCHANGED <<observer, toObserve>>
    /\ UNCHANGED <<sync_config, cbLog, lastStatus, serverWrites, notifierVars, snapVars, threadVars, stack>>

\* a call in which nothing throws inside the transaction block
register_query(object_class, query) == RegisterQueryCall(object_class, query, "none")

\* the server writes status, error message and matches of the row
ServerWrite(status, message, matches) ==
    /\ resultSets # <<>>
    /\ serverWrites < MaxServerWrites
    /\ serverWrites' = serverWrites + 1
    /\ resultSets' = [resultSets EXCEPT ![1] =
                         [@ EXCEPT !.status = status, !.error_message = message,
                                   !.matches = matches]]
    /\ toObserve' = IF observer = "attached" /\ toObserve = "none" THEN "change"
                    ELSE toObserve
    /\ UNCHANGED <<sync_config, resultSetsColumns, writeTxns, is_in_transaction, observer,
                   queryCall, cbLog, thrown, lastStatus, notifierVars, snapVars, threadVars, stack>>

\* the object notifier fails: its callbacks are to be run with the error
NotifierFails ==
    /\ observer = "attached"
    /\ toObserve # "error"
    /\ toObserve' = "error"
    /\ UNCHANGED <<sync_config, resultSets, resultSetsColumns, writeTxns, is_in_transaction,
                   observer, queryCall, cbLog, thrown, lastStatus, serverWrites,
                   notifierVars, snapVars, threadVars, stack>>

\* the notification callback of register_query: the calls of the user
\* callback it makes and whether it releases the observed object
NotificationCallbackKeepsObject(row, error) ==
    IF error # NoError
    THEN [calls |-> <<[results |-> EmptyResults, error |-> error]>>, reset |-> FALSE]
    ELSE IF row.status = 0
    THEN [calls |-> <<>>, reset |-> FALSE]
    ELSE IF row.status = 1
    THEN [calls |-> <<[results |-> [list |-> TRUE, rows |-> row.matches],
                      error |-> NoError]>>, reset |-> FALSE]
    ELSE [calls |-> <<[results |-> EmptyResults, error |-> [what |-> row.error_message]]>>,
          reset |-> FALSE]
NotificationCallbackNoErrorBranch(row, error) ==
    IF error # NoError
    THEN [calls |-> <<[results |-> EmptyResults, error |-> error]>>, reset |-> TRUE]
    ELSE IF row.status = 0
    THEN [calls |-> <<>>, reset |-> FALSE]
    ELSE [calls |-> <<[results |-> [list |-> TRUE, rows |-> row.matches],
                      error |-> NoError]>>, reset |-> TRUE]
NotificationCallback(row, error) ==
    IF error # NoError
    THEN [calls |-> <<[results |-> EmptyResults, error |-> error]>>, reset |-> TRUE]
    ELSE IF row.status = 0
    THEN [calls |-> <<>>, reset |-> FALSE]
    ELSE IF row.status = 1
    THEN [calls |-> <<[results |-> [list |-> TRUE, rows |-> row.matches],
                      error |-> NoError]>>, reset |-> TRUE]
    ELSE [calls |-> <<[results |-> EmptyResults, error |-> [what |-> row.error_message]]>>,
          reset |-> TRUE]

\* the object notifier runs the notification callback on the row as it is
Observe ==
    /\ observer = "attached"
    /\ toObserve # "none"
    /\ toObserve' = "none"
    /\ LET error == IF toObserve = "error" THEN NotifierError ELSE NoError
           r == NotificationCallback(resultSets[1], error)
       IN /\ cbLog' = cbLog \o r.calls
          /\ observer' = IF r.reset THEN "detached" ELSE observer
    /\ UNCHANGED <<sync_config, resultSets, resultSetsColumns, writeTxns, is_in_transaction,
                   queryCall, thrown, lastStatus, serverWrites, notifierVars, snapVars, threadVars, stack>>

\* get_query_status(group, name, new_state, error): the state is the cast
\* of the stored status to the enumeration
GetQueryStatus(rows, name) ==
    LET found == {k \in 1..Len(rows) : rows[k].name = name}
    IN IF found = {}
       THEN [name |-> name, state |-> UNINITIALIZED, error |-> ""]
       ELSE LET row == rows[CHOOSE k \in found : \A j \in found : k <= j]
            IN [name |-> name, state |-> row.status, error |-> row.error_message]

\* a call of get_query_status on a group that has the __ResultSets table
get_query_status(name) ==
    /\ resultSetsColumns # {}
    /\ lastStatus' = GetQueryStatus(resultSets, name)
    /\ UNCHANGED <<sync_config, resultSets, resultSetsColumns, writeTxns, is_in_transaction,
                   observer, toObserve, queryCall, cbLog, thrown, serverWrites,
                   notifierVars, snapVars, threadVars, stack>>

QueryInit ==
    /\ NotifierInit
    /\ SnapIdle
    /\ ThreadsIdle
    /\ stack = <<>>
    /\ sync_config \in {"absent", "full", "partial"}
    /\ resultSets = <<>>
    /\ resultSetsColumns = {}
    /\ writeTxns = 0
    /\ is_in_transaction = FALSE
    /\ observer = "none"
    /\ toObserve = "none"
    /\ queryCall = NoCall
    /\ cbLog = <<>>
    /\ thrown = "none"
    /\ lastStatus = NoStatus
    /\ serverWrites = 0

QueryNext ==
    \/ \E c \in ObjectClasses, q \in Queries : register_query(c, q)
    \/ \E st \in UNDEFINED..MaxStatus, msg \in ErrorMessages, m \in {{}, {1, 2}} :
          ServerWrite(st, msg, m)
    \/ NotifierFails
    \/ Observe
    \/ \E n \in Queries \cup {"no such query"} : get_query_status(n)

QuerySpec == QueryInit /\ [][QueryNext]_vars

\* QueryNext, with calls of register_query whose transaction block throws
TransactionNext ==
    \/ \E c \in ObjectClasses, q \in Queries, fault \in TransactionFaults :
          RegisterQueryCall(c, q, fault)
    \/ \E st \in UNDEFINED..MaxStatus, msg \in ErrorMessages, m \in {{}, {1, 2}} :
          ServerWrite(st, msg, m)
    \/ NotifierFails
    \/ Observe
    \/ \E n \in Queries \cup {"no such query"} : get_query_status(n)

TransactionSpec == QueryInit /\ [][TransactionNext]_vars

(* ------------------------------------------- the threads and their locks *)
\* The same code with each lock, unlock and wait as a step of its own:
\* the host thread ("host"), the worker ("worker") and, for each file, the
\* thread on which the coordinator of the file runs the transaction
\* callback (named by the file). pc is "idle" for a thread that is not
\* inside one of the notifier's functions.

\* the variables the lock-level description leaves as the constructor made them
coarseVars == <<adminVars, workpc, hostVars, lastFilter, everReported, rejected, atStart,
                snapVars, queryVars, stack>>

\* std::condition_variable::notify_one and notify_all on m_work_queue_cv,
\* which only the worker waits on: the waiting worker, if any, is woken
NotifyNone(waits, n) == n
notify_one(waits, n) == waits \/ n
notify_all(waits, n) == waits \/ n

\* calculate(): what l.unlock() makes of the work-queue mutex after the pop
HoldWhileComputing(holder) == holder
UnlockAfterPop(holder) == "free"

\* GlobalNotifier::start: the worker thread is spawned
StartWorker ==
    /\ pc["host"] = "idle"
    /\ ~started
    /\ started' = TRUE
    /\ pc' = [pc EXCEPT !["worker"] = "lock"]
    /\ UNCHANGED <<coarseVars, m_listen_entries, transaction_callback, m_work_queue,
                   m_pending_deliveries, signal, next, delivered, jobsPushed, db,
                   m_waiting, m_shutdown, m_work_queue_mutex, m_deliver_queue_mutex,
                   callbackArgs, registering, change, notified, pushLog, popLog>>

\* a commit to file f; if the coordinator has the transaction callback it
\* calls it, and the callback opens its handle at old_version. Callbacks
\* are followed only while the notifier exists.
ThreadCommit(f, kind) ==
    /\ pc[f] = "idle"
    /\ pc["host"] # "destroyed"
    /\ TotalCommits < MaxLiveCommits
    /\ db' = [db EXCEPT ![f] = Append(@, kind)]
    /\ IF f \in transaction_callback
       THEN /\ callbackArgs' = [callbackArgs EXCEPT ![f] =
                                   [old_version |-> current_version(f),
                                    new_version |-> current_version(f) + 1]]
            /\ pc' = [pc EXCEPT ![f] = "callback_lock"]
       ELSE UNCHANGED <<callbackArgs, pc>>
    /\ UNCHANGED <<coarseVars, m_listen_entries, transaction_callback, m_work_queue,
                   m_pending_deliveries, signal, next, delivered, jobsPushed, started,
                   m_waiting, m_shutdown, m_work_queue_mutex, m_deliver_queue_mutex,
                   registering, change, notified, pushLog, popLog>>

\* the transaction callback: std::lock_guard l(m_work_queue_mutex)
CallbackLock(f) ==
    /\ pc[f] = "callback_lock"
    /\ pc["host"] # "destroyed"
    /\ m_work_queue_mutex = "free"
    /\ m_work_queue_mutex' = f
    /\ pc' = [pc EXCEPT ![f] = "callback_push"]
    /\ UNCHANGED <<coarseVars, m_listen_entries, transaction_callback, m_work_queue,
                   m_pending_deliveries, signal, next, delivered, jobsPushed, started, db,
                   m_waiting, m_shutdown, m_deliver_queue_mutex, callbackArgs, registering,
                   change, notified, pushLog, popLog>>

\* the transaction callback: push, notify_one, and the guard's release
CallbackPush(f) ==
    /\ pc[f] = "callback_push"
    /\ pc["host"] # "destroyed"
    /\ TransactionCallback(f, callbackArgs[f].old_version, callbackArgs[f].new_version)
    /\ pushLog' = Append(pushLog, <<f, callbackArgs[f].old_version,
                                    callbackArgs[f].new_version>>)
    /\ notified' = notify_one(pc["worker"] = "blocked", notified)
    /\ m_work_queue_mutex' = "free"
    /\ callbackArgs' = [callbackArgs EXCEPT ![f] = NoArgs]
    /\ pc' = [pc EXCEPT ![f] = "idle"]
    /\ UNCHANGED <<coarseVars, m_listen_entries, transaction_callback,
                   m_pending_deliveries, signal, next, delivered, started, db, m_waiting,
                   m_shutdown, m_deliver_queue_mutex, registering, change, popLog>>

\* calculate(): std::unique_lock l(m_work_queue_mutex), and the lock taken
\* again when a wait ends
CalculateLock ==
    /\ pc["worker"] = "lock"
    /\ m_work_queue_mutex = "free"
    /\ m_work_queue_mutex' = "worker"
    /\ pc' = [pc EXCEPT !["worker"] = "wait"]
    /\ UNCHANGED <<coarseVars, m_listen_entries, transaction_callback, m_work_queue,
                   m_pending_deliveries, signal, next, delivered, jobsPushed, started, db,
                   m_waiting, m_shutdown, m_deliver_queue_mutex, callbackArgs, registering,
                   change, notified, pushLog, popLog>>

\* calculate(): the wait tests its predicate with the lock held and, if it
\* is false, releases the lock and blocks
CalculateWait ==
    /\ pc["worker"] = "wait"
    /\ IF m_shutdown \/ m_work_queue # <<>>
       THEN /\ pc' = [pc EXCEPT !["worker"] = "check"]
            /\ UNCHANGED <<m_work_queue_mutex, notified>>
       ELSE /\ pc' = [pc EXCEPT !["worker"] = "blocked"]
            /\ m_work_queue_mutex' = "free"
            /\ notified' = FALSE
    /\ UNCHANGED <<coarseVars, m_listen_entries, transaction_callback, m_work_queue,
                   m_pending_deliveries, signal, next, delivered, jobsPushed, started, db,
                   m_waiting, m_shutdown, m_deliver_queue_mutex, callbackArgs, registering,
                   change, pushLog, popLog>>

\* the blocked worker is woken by a notification
CalculateWake ==
    /\ pc["worker"] = "blocked"
    /\ notified
    /\ notified' = FALSE
    /\ pc' = [pc EXCEPT !["worker"] = "lock"]
    /\ UNCHANGED <<coarseVars, m_listen_entries, transaction_callback, m_work_queue,
                   m_pending_deliveries, signal, next, delivered, jobsPushed, started, db,
                   m_waiting, m_shutdown, m_work_queue_mutex, m_deliver_queue_mutex,
                   callbackArgs, registering, change, pushLog, popLog>>

\* the blocked worker wakes though nothing notified it
CalculateSpuriousWake ==
    /\ pc["worker"] = "blocked"
    /\ ~notified
    /\ pc' = [pc EXCEPT !["worker"] = "lock"]
    /\ UNCHANGED <<coarseVars, m_listen_entries, transaction_callback, m_work_queue,
                   m_pending_deliveries, signal, next, delivered, jobsPushed, started, db,
                   m_waiting, m_shutdown, m_work_queue_mutex, m_deliver_queue_mutex,
                   callbackArgs, registering, change, notified, pushLog, popLog>>

\* calculate(): if (m_shutdown) return, which releases the lock
CalculateReturn ==
    /\ pc["worker"] = "check"
    /\ m_shutdown
    /\ m_work_queue_mutex' = "free"
    /\ pc' = [pc EXCEPT !["worker"] = "exited"]
    /\ UNCHANGED <<coarseVars, m_listen_entries, transaction_callback, m_work_queue,
                   m_pending_deliveries, signal, next, delivered, jobsPushed, started, db,
                   m_waiting, m_shutdown, m_deliver_queue_mutex, callbackArgs, registering,
                   change, notified, pushLog, popLog>>

\* calculate(): the pop and l.unlock()
CalculatePop ==
    /\ pc["worker"] = "check"
    /\ ~m_shutdown
    /\ next' = Head(m_work_queue)
    /\ m_work_queue' = Tail(m_work_queue)
    /\ popLog' = Append(popLog, <<Head(m_work_queue).realm.file,
                                  Head(m_work_queue).realm.version,
                                  Head(m_work_queue).target_version>>)
    /\ m_work_queue_mutex' = UnlockAfterPop(m_work_queue_mutex)
    /\ pc' = [pc EXCEPT !["worker"] = "compute"]
    /\ UNCHANGED <<coarseVars, m_listen_entries, transaction_callback,
                   m_pending_deliveries, signal, delivered, jobsPushed, started, db,
                   m_waiting, m_shutdown, m_deliver_queue_mutex, callbackArgs, registering,
                   change, notified, pushLog>>

\* calculate(): the computation, up to `continue` or to the lock of the
\* delivery queue
CalculateCompute ==
    /\ pc["worker"] = "compute"
    /\ LET f == next.realm.file
           from == next.realm.version
           changes == CollectChanges(advance(f, from, next.target_version))
       IN IF Suppressed(changes, is_empty(f, from))
          THEN /\ next' = NoJob
               /\ pc' = [pc EXCEPT !["worker"] = "lock"]
          ELSE /\ UNCHANGED next
               /\ pc' = [pc EXCEPT !["worker"] = "deliver_lock"]
    /\ UNCHANGED <<coarseVars, m_listen_entries, transaction_callback, m_work_queue,
                   m_pending_deliveries, signal, delivered, jobsPushed, started, db,
                   m_waiting, m_shutdown, m_work_queue_mutex, m_deliver_queue_mutex,
                   callbackArgs, registering, change, notified, pushLog, popLog>>

\* calculate(): std::lock_guard l2(m_deliver_queue_mutex)
CalculateDeliverLock ==
    /\ pc["worker"] = "deliver_lock"
    /\ m_deliver_queue_mutex = "free"
    /\ m_deliver_queue_mutex' = "worker"
    /\ pc' = [pc EXCEPT !["worker"] = "deliver_push"]
    /\ UNCHANGED <<coarseVars, m_listen_entries, transaction_callback, m_work_queue,
                   m_pending_deliveries, signal, next, delivered, jobsPushed, started, db,
                   m_waiting, m_shutdown, m_work_queue_mutex, callbackArgs, registering,
                   change, notified, pushLog, popLog>>

\* calculate(): the push, the notify and the end of the iteration, where
\* l2 is released
CalculatePush ==
    /\ pc["worker"] = "deliver_push"
    /\ LET f == next.realm.file
           changes == CollectChanges(advance(f, next.realm.version, next.target_version))
       IN m_pending_deliveries' =
              DeliverQueuePush(m_pending_deliveries, JobNotification(next, changes))
    /\ signal' = TRUE
    /\ m_deliver_queue_mutex' = "free"
    /\ next' = NoJob
    /\ pc' = [pc EXCEPT !["worker"] = "lock"]
    /\ UNCHANGED <<coarseVars, m_listen_entries, transaction_callback, m_work_queue,
                   delivered, jobsPushed, started, db, m_waiting, m_shutdown,
                   m_work_queue_mutex, callbackArgs, registering, change, notified,
                   pushLog, popLog>>

\* register_realm for a file that is not listened to and passes the
\* filter: the coordinator is recorded and the realm opened
RegisterRealmOpen(f) ==
    /\ pc["host"] = "idle"
    /\ started
    /\ f \notin DOMAIN m_listen_entries
    /\ m_listen_entries' =
          [i \in DOMAIN m_listen_entries \cup {f} |->
              IF i = f THEN f ELSE m_listen_entries[i]]
    /\ registering' = [file |-> f, version |-> current_version(f)]
    /\ pc' = [pc EXCEPT !["host"] =
                 IF is_empty(f, current_version(f)) THEN "install" ELSE "seed_lock"]
    /\ UNCHANGED <<coarseVars, transaction_callback, m_work_queue, m_pending_deliveries,
                   signal, next, delivered, jobsPushed, started, db, m_waiting, m_shutdown,
                   m_work_queue_mutex, m_deliver_queue_mutex, callbackArgs, change,
                   notified, pushLog, popLog>>

\* register_realm: std::lock_guard l(m_deliver_queue_mutex)
RegisterRealmLock ==
    /\ pc["host"] = "seed_lock"
    /\ m_deliver_queue_mutex = "free"
    /\ m_deliver_queue_mutex' = "host"
    /\ pc' = [pc EXCEPT !["host"] = "seed_push"]
    /\ UNCHANGED <<coarseVars, m_listen_entries, transaction_callback, m_work_queue,
                   m_pending_deliveries, signal, next, delivered, jobsPushed, started, db,
                   m_waiting, m_shutdown, m_work_queue_mutex, callbackArgs, registering,
                   change, notified, pushLog, popLog>>

\* register_realm: the seed is pushed and the guard released
RegisterRealmPush ==
    /\ pc["host"] = "seed_push"
    /\ m_pending_deliveries' =
          DeliverQueuePush(m_pending_deliveries,
                           SeedNotification(registering.file, registering.version))
    /\ signal' = TRUE
    /\ m_deliver_queue_mutex' = "free"
    /\ pc' = [pc EXCEPT !["host"] = "install"]
    /\ UNCHANGED <<coarseVars, m_listen_entries, transaction_callback, m_work_queue, next,
                   delivered, jobsPushed, started, db, m_waiting, m_shutdown,
                   m_work_queue_mutex, callbackArgs, registering, change, notified,
                   pushLog, popLog>>

\* register_realm: coordinator->set_transaction_callback(...)
RegisterRealmInstall ==
    /\ pc["host"] = "install"
    /\ transaction_callback' = transaction_callback \cup {registering.file}
    /\ registering' = NoRealm
    /\ pc' = [pc EXCEPT !["host"] = "idle"]
    /\ UNCHANGED <<coarseVars, m_listen_entries, m_work_queue, m_pending_deliveries,
                   signal, next, delivered, jobsPushed, started, db, m_waiting, m_shutdown,
                   m_work_queue_mutex, m_deliver_queue_mutex, callbackArgs, change,
                   notified, pushLog, popLog>>

\* the host loop runs the signal's callable: on_change() is entered
OnChangeSignal ==
    /\ pc["host"] = "idle"
    /\ signal
    /\ signal' = FALSE
    /\ pc' = [pc EXCEPT !["host"] = "loop"]
    /\ UNCHANGED <<coarseVars, m_listen_entries, transaction_callback, m_work_queue,
                   m_pending_deliveries, next, delivered, jobsPushed, started, db,
                   m_waiting, m_shutdown, m_work_queue_mutex, m_deliver_queue_mutex,
                   callbackArgs, registering, change, notified, pushLog, popLog>>

\* on_change: while (!m_waiting)
OnChangeLoop ==
    /\ pc["host"] = "loop"
    /\ pc' = [pc EXCEPT !["host"] = IF m_waiting THEN "idle" ELSE "front_lock"]
    /\ UNCHANGED <<coarseVars, m_listen_entries, transaction_callback, m_work_queue,
                   m_pending_deliveries, signal, next, delivered, jobsPushed, started, db,
                   m_waiting, m_shutdown, m_work_queue_mutex, m_deliver_queue_mutex,
                   callbackArgs, registering, change, notified, pushLog, popLog>>

\* on_change: std::lock_guard l(m_deliver_queue_mutex)
OnChangeLock ==
    /\ pc["host"] = "front_lock"
    /\ m_deliver_queue_mutex = "free"
    /\ m_deliver_queue_mutex' = "host"
    /\ pc' = [pc EXCEPT !["host"] = "front"]
    /\ UNCHANGED <<coarseVars, m_listen_entries, transaction_callback, m_work_queue,
                   m_pending_deliveries, signal, next, delivered, jobsPushed, started, db,
                   m_waiting, m_shutdown, m_work_queue_mutex, callbackArgs, registering,
                   change, notified, pushLog, popLog>>

\* on_change: return if the queue is empty, else move the front to
\* `change` and pop; the guard is released either way
OnChangeFront ==
    /\ pc["host"] = "front"
    /\ m_deliver_queue_mutex' = "free"
    /\ IF m_pending_deliveries = <<>>
       THEN /\ pc' = [pc EXCEPT !["host"] = "idle"]
            /\ UNCHANGED <<change, m_pending_deliveries>>
       ELSE /\ change' = Head(m_pending_deliveries)
            /\ m_pending_deliveries' = Tail(m_pending_deliveries)
            /\ pc' = [pc EXCEPT !["host"] = "realm_changed"]
    /\ UNCHANGED <<coarseVars, m_listen_entries, transaction_callback, m_work_queue,
                   signal, next, delivered, jobsPushed, started, db, m_waiting, m_shutdown,
                   m_work_queue_mutex, callbackArgs, registering, notified, pushLog,
                   popLog>>

\* on_change: m_target->realm_changed(std::move(change))
OnChangeCall ==
    /\ pc["host"] = "realm_changed"
    /\ delivered' = [delivered EXCEPT ![change.realm.file] = Append(@, change)]
    /\ change' = NoNotification
    /\ pc' = [pc EXCEPT !["host"] = "loop"]
    /\ UNCHANGED <<coarseVars, m_listen_entries, transaction_callback, m_work_queue,
                   m_pending_deliveries, signal, next, jobsPushed, started, db, m_waiting,
                   m_shutdown, m_work_queue_mutex, m_deliver_queue_mutex, callbackArgs,
                   registering, notified, pushLog, popLog>>

\* has_pending(): the guard, the test, the release
HasPendingCall ==
    /\ pc["host"] = "idle"
    /\ ~m_shutdown
    /\ m_pending_deliveries # <<>>
    /\ pc' = [pc EXCEPT !["host"] = "pending_lock"]
    /\ UNCHANGED <<coarseVars, m_listen_entries, transaction_callback, m_work_queue,
                   m_pending_deliveries, signal, next, delivered, jobsPushed, started, db,
                   m_waiting, m_shutdown, m_work_queue_mutex, m_deliver_queue_mutex,
                   callbackArgs, registering, change, notified, pushLog, popLog>>

HasPendingLock ==
    /\ pc["host"] = "pending_lock"
    /\ m_deliver_queue_mutex = "free"
    /\ m_deliver_queue_mutex' = "host"
    /\ pc' = [pc EXCEPT !["host"] = "pending_test"]
    /\ UNCHANGED <<coarseVars, m_listen_entries, transaction_callback, m_work_queue,
                   m_pending_deliveries, signal, next, delivered, jobsPushed, started, db,
                   m_waiting, m_shutdown, m_work_queue_mutex, callbackArgs, registering,
                   change, notified, pushLog, popLog>>

HasPendingReturn ==
    /\ pc["host"] = "pending_test"
    /\ m_deliver_queue_mutex' = "free"
    /\ pc' = [pc EXCEPT !["host"] = "idle"]
    /\ UNCHANGED <<coarseVars, m_listen_entries, transaction_callback, m_work_queue,
                   m_pending_deliveries, signal, next, delivered, jobsPushed, started, db,
                   m_waiting, m_shutdown, m_work_queue_mutex, callbackArgs, registering,
                   change, notified, pushLog, popLog>>

PauseCall ==
    /\ pc["host"] = "idle"
    /\ ~m_waiting
    /\ m_waiting' = TRUE
    /\ UNCHANGED <<coarseVars, m_listen_entries, transaction_callback, m_work_queue,
                   m_pending_deliveries, signal, next, delivered, jobsPushed, started, db,
                   m_shutdown, m_work_queue_mutex, m_deliver_queue_mutex, pc, callbackArgs,
                   registering, change, notified, pushLog, popLog>>

\* resume(): the flag is cleared and on_change() called
ResumeCall ==
    /\ pc["host"] = "idle"
    /\ m_waiting
    /\ m_waiting' = FALSE
    /\ pc' = [pc EXCEPT !["host"] = "loop"]
    /\ UNCHANGED <<coarseVars, m_listen_entries, transaction_callback, m_work_queue,
                   m_pending_deliveries, signal, next, delivered, jobsPushed, started, db,
                   m_shutdown, m_work_queue_mutex, m_deliver_queue_mutex, callbackArgs,
                   registering, change, notified, pushLog, popLog>>

\* ~GlobalNotifier is entered
DestructorCall ==
    /\ pc["host"] = "idle"
    /\ pc' = [pc EXCEPT !["host"] = "shutdown_lock"]
    /\ UNCHANGED <<coarseVars, m_listen_entries, transaction_callback, m_work_queue,
                   m_pending_deliveries, signal, next, delivered, jobsPushed, started, db,
                   m_waiting, m_shutdown, m_work_queue_mutex, m_deliver_queue_mutex,
                   callbackArgs, registering, change, notified, pushLog, popLog>>

\* ~GlobalNotifier: std::unique_lock l(m_work_queue_mutex)
DestructorLock ==
    /\ pc["host"] = "shutdown_lock"
    /\ m_work_queue_mutex = "free"
    /\ m_work_queue_mutex' = "host"
    /\ pc' = [pc EXCEPT !["host"] = "shutdown"]
    /\ UNCHANGED <<coarseVars, m_listen_entries, transaction_callback, m_work_queue,
                   m_pending_deliveries, signal, next, delivered, jobsPushed, started, db,
                   m_waiting, m_shutdown, m_deliver_queue_mutex, callbackArgs, registering,
                   change, notified, pushLog, popLog>>

\* ~GlobalNotifier: m_shutdown is set, the condition variable notified and
\* the lock released at the end of the block
DestructorShutdown ==
    /\ pc["host"] = "shutdown"
    /\ m_shutdown' = TRUE
    /\ notified' = notify_all(pc["worker"] = "blocked", notified)
    /\ m_work_queue_mutex' = "free"
    /\ pc' = [pc EXCEPT !["host"] = "join"]
    /\ UNCHANGED <<coarseVars, m_listen_entries, transaction_callback, m_work_queue,
                   m_pending_deliveries, signal, next, delivered, jobsPushed, started, db,
                   m_waiting, m_deliver_queue_mutex, callbackArgs, registering, change,
                   pushLog, popLog>>

\* ~GlobalNotifier: the join, skipped if the worker was never spawned
DestructorJoin ==
    /\ pc["host"] = "join"
    /\ pc["worker"] \in {"idle", "exited"}
    /\ pc' = [pc EXCEPT !["host"] = "destroyed"]
    /\ UNCHANGED <<coarseVars, m_listen_entries, transaction_callback, m_work_queue,
                   m_pending_deliveries, signal, next, delivered, jobsPushed, started, db,
                   m_waiting, m_shutdown, m_work_queue_mutex, m_deliver_queue_mutex,
                   callbackArgs, registering, change, notified, pushLog, popLog>>

ThreadNext ==
    \/ StartWorker
    \/ \E f \in Ids, kind \in CommitKinds : ThreadCommit(f, kind)
    \/ \E f \in Ids : CallbackLock(f)
    \/ \E f \in Ids : CallbackPush(f)
    \/ CalculateLock
    \/ CalculateWait
    \/ CalculateWake
    \/ CalculateSpuriousWake
    \/ CalculateReturn
    \/ CalculatePop
    \/ CalculateCompute
    \/ CalculateDeliverLock
    \/ CalculatePush
    \/ \E f \in Ids : RegisterRealmOpen(f)
    \/ RegisterRealmLock
    \/ RegisterRealmPush
    \/ RegisterRealmInstall
    \/ OnChangeSignal
    \/ OnChangeLoop
    \/ OnChangeLock
    \/ OnChangeFront
    \/ OnChangeCall
    \/ HasPendingCall
    \/ HasPendingLock
    \/ HasPendingReturn
    \/ PauseCall
    \/ ResumeCall
    \/ DestructorCall
    \/ DestructorLock
    \/ DestructorShutdown
    \/ DestructorJoin

ThreadSpec == Init /\ [][ThreadNext]_vars

\* Every thread is scheduled: a thread that can take its next step takes
\* it, and a thread waiting for a mutex gets it if the mutex is free again
\* and again. A wait on the condition variable ends for sure only by a
\* notification.
ThreadFairness ==
    /\ SF_vars(CalculateLock)
    /\ SF_vars(CalculateDeliverLock)
    /\ \A f \in Ids : SF_vars(CallbackLock(f))
    /\ \A f \in Ids : WF_vars(CallbackPush(f))
    /\ WF_vars(CalculateWait)
    /\ WF_vars(CalculateWake)
    /\ WF_vars(CalculateReturn)
    /\ WF_vars(CalculatePop)
    /\ WF_vars(CalculateCompute)
    /\ WF_vars(CalculatePush)
    /\ WF_vars(RegisterRealmPush)
    /\ WF_vars(OnChangeFront)
    /\ WF_vars(HasPendingReturn)
    /\ WF_vars(DestructorShutdown)

ThreadLiveSpec == Init /\ [][ThreadNext]_vars /\ ThreadFairness

(* ------------------------------------- pause and resume inside a callback *)
\* The delivery pipeline with realm_changed as a call that can itself call
\* pause() and resume(): stack holds the host's active calls of on_change
\* and realm_changed, the innermost last. A realm_changed frame counts the
\* calls of pause() and resume() it has made; an on_change frame notes the
\* value of m_waiting it was entered with.
OnChangeFrame(waiting) == [fn |-> "on_change", calls |-> 0, waiting |-> waiting]
RealmChangedFrame == [fn |-> "realm_changed", calls |-> 0, waiting |-> FALSE]
Top == stack[Len(stack)]
Return == SubSeq(stack, 1, Len(stack) - 1)

\* on_change: while (!m_waiting), read before every iteration
WhileNotWaitingAtEntry(frame, waiting) == ~frame.waiting
WhileNotWaiting(frame, waiting) == ~waiting

\* the host loop runs the signal's callable: on_change() is entered
SignalOnChange ==
    /\ hostpc = "idle"
    /\ signal
    /\ signal' = FALSE
    /\ hostpc' = "drain"
    /\ stack' = <<OnChangeFrame(m_waiting)>>
    /\ UNCHANGED <<snapVars, queryVars, threadVars, adminVars, regVars, m_work_queue,
                   m_pending_deliveries, workVars, todo, drainBy, resumeMark, delivered,
                   jobsPushed, lastFilter, everReported, rejected, atStart, started, db,
                   m_waiting, m_shutdown>>

\* resume() called by the host outside any callback
ResumeOnChange ==
    /\ hostpc = "idle"
    /\ m_waiting
    /\ m_waiting' = FALSE
    /\ hostpc' = "drain"
    /\ stack' = <<OnChangeFrame(FALSE)>>
    /\ UNCHANGED <<snapVars, queryVars, threadVars, adminVars, regVars, m_work_queue,
                   m_pending_deliveries, signal, workVars, todo, drainBy, resumeMark,
                   delivered, jobsPushed, lastFilter, everReported, rejected, atStart,
                   started, db, m_shutdown>>

\* one iteration of on_change: the front is popped and realm_changed called
LoopPop ==
    /\ stack # <<>>
    /\ Top.fn = "on_change"
    /\ WhileNotWaiting(Top, m_waiting)
    /\ m_pending_deliveries # <<>>
    /\ delivered' = [delivered EXCEPT ![Head(m_pending_deliveries).realm.file] =
                        Append(@, Head(m_pending_deliveries))]
    /\ m_pending_deliveries' = Tail(m_pending_deliveries)
    /\ stack' = Append(stack, RealmChangedFrame)
    /\ UNCHANGED <<snapVars, queryVars, threadVars, adminVars, regVars, m_work_queue,
                   signal, workVars, hostpc, todo, drainBy, resumeMark, jobsPushed,
                   lastFilter, everReported, rejected, atStart, started, db, m_waiting,
                   m_shutdown>>

\* on_change returns: to the host loop, or into the resume() that called it
LoopReturn ==
    /\ stack # <<>>
    /\ Top.fn = "on_change"
    /\ ~(WhileNotWaiting(Top, m_waiting) /\ m_pending_deliveries # <<>>)
    /\ stack' = Return
    /\ hostpc' = IF Return = <<>> THEN "idle" ELSE hostpc
    /\ UNCHANGED <<snapVars, queryVars, threadVars, adminVars, regVars, m_work_queue,
                   m_pending_deliveries, signal, workVars, todo, drainBy, resumeMark,
                   delivered, jobsPushed, lastFilter, everReported, rejected, atStart,
                   started, db, m_waiting, m_shutdown>>

\* realm_changed calls pause()
CallbackPause ==
    /\ stack # <<>>
    /\ Top.fn = "realm_changed"
    /\ Top.calls < MaxCallbackCalls
    /\ m_waiting' = TRUE
    /\ stack' = [stack EXCEPT ![Len(stack)].calls = @ + 1]
    /\ UNCHANGED <<snapVars, queryVars, threadVars, adminVars, regVars, m_work_queue,
                   m_pending_deliveries, signal, workVars, hostpc, todo, drainBy,
                   resumeMark, delivered, jobsPushed, lastFilter, everReported, rejected,
                   atStart, started, db, m_shutdown>>

\* realm_changed calls resume(), which calls on_change()
CallbackResume ==
    /\ stack # <<>>
    /\ Top.fn = "realm_changed"
    /\ Top.calls < MaxCallbackCalls
    /\ m_waiting' = FALSE
    /\ stack' = Append([stack EXCEPT ![Len(stack)].calls = @ + 1], OnChangeFrame(FALSE))
    /\ UNCHANGED <<snapVars, queryVars, threadVars, adminVars, regVars, m_work_queue,
                   m_pending_deliveries, signal, workVars, hostpc, todo, drainBy,
                   resumeMark, delivered, jobsPushed, lastFilter, everReported, rejected,
                   atStart, started, db, m_shutdown>>

\* realm_changed returns into the loop of on_change
CallbackReturn ==
    /\ stack # <<>>
    /\ Top.fn = "realm_changed"
    /\ stack' = Return
    /\ UNCHANGED <<snapVars, queryVars, threadVars, adminVars, regVars, m_work_queue,
                   m_pending_deliveries, signal, workVars, hostpc, todo, drainBy,
                   resumeMark, delivered, jobsPushed, lastFilter, everReported, rejected,
                   atStart, started, db, m_waiting, m_shutdown>>

ReentryNext ==
    \/ \E e \in AdminEntries : create_realm(e.id, e.path)
    \/ start
    \/ \E w \in Batches(adminTable, usedIds, m_first) : AdminDeliver(w)
    \/ AdminReturn
    \/ register_realm
    \/ set_transaction_callback
    \/ \E f \in Ids, kind \in CommitKinds : TotalCommits < MaxLiveCommits /\ Commit(f, kind)
    \/ WorkerPop
    \/ WorkerExit
    \/ WorkerCalc
    \/ SignalOnChange
    \/ ResumeOnChange
    \/ LoopPop
    \/ LoopReturn
    \/ CallbackPause
    \/ CallbackResume
    \/ CallbackReturn
    \/ pause
    \/ Destructor
    \/ Join

\* The host event loop runs on_change after a notify(), though it has
\* other callbacks to run; on_change and the callbacks it calls run to
\* their end.
ReentryFairness ==
    /\ SF_vars(SignalOnChange)
    /\ WF_vars(LoopPop)
    /\ WF_vars(LoopReturn)
    /\ WF_vars(CallbackReturn)
    /\ WF_vars(AdminReturn)
    /\ WF_vars(register_realm)
    /\ WF_vars(set_transaction_callback)

ReentrySpec == Init /\ [][ReentryNext]_vars /\ ReentryFairness

(* ------------------------------------------------------------ properties *)
\* the notifications of file f still on the delivery queue, in order
Pending(f) == SelectSeq(m_pending_deliveries, LAMBDA n : n.realm.file = f)

\* the notifications of file f pushed and not discarded, in order
Pushed(f) == delivered[f] \o Pending(f)

\* the commit of file f from version v to v + 1 wrote to a table that has
\* an object type name
TouchesObjectType(f, v) ==
    \E t \in TouchedTable(db[f][v]) : object_type_for_table_name(t) # NoName

\* the worker has finished with the job <<f, old, new>>
Processed(j) ==
    /\ j \in jobsPushed
    /\ \A k \in 1..Len(m_work_queue) :
          <<m_work_queue[k].realm.file, m_work_queue[k].realm.version,
            m_work_queue[k].target_version>> # j
    /\ <<next.realm.file, next.realm.version, next.target_version>> # j

\* C1: for any two notifications N1, N2 of one file passed to realm_changed
\* with N1 before N2, N1.new <= N2.old (so a seed, whose old is unset, is
\* never the later one): delivery follows commit-version order.
C1_DeliveredInCommitOrder ==
    \A f \in Ids : \A i, j \in 1..Len(delivered[f]) :
        i < j => delivered[f][i].new <= delivered[f][j].old

\* a seed and two job notifications of one file have been delivered
C1_Witness ==
    \E f \in Ids :
        /\ Len(delivered[f]) >= 3
        /\ delivered[f][1].old = UnsetVersion
        /\ delivered[f][3].old # UnsetVersion

\* C2 (as claimed): two consecutively delivered notifications N1, N2 of one
\* file have N2.old = N1.new whenever N1 is not the seed.
C2_Contiguous ==
    \A f \in Ids : \A i \in 1..(Len(delivered[f]) - 1) :
        delivered[f][i].old # UnsetVersion
            => delivered[f][i + 1].old = delivered[f][i].new

\* C2 (amended): for two consecutively delivered notifications N1, N2 of one
\* file with N1 not the seed, N1.new <= N2.old, and every commit between
\* N1.new and N2.old is one the suppression rule drops: it wrote to no table
\* with an object type name and the group was not empty before it.
C2_ContiguousUpToSuppressed ==
    \A f \in Ids : \A i \in 1..(Len(delivered[f]) - 1) :
        delivered[f][i].old # UnsetVersion
            => /\ delivered[f][i].new <= delivered[f][i + 1].old
               /\ \A v \in delivered[f][i].new..(delivered[f][i + 1].old - 1) :
                     ~TouchesObjectType(f, v) /\ ~is_empty(f, v)

\* two job notifications delivered one after the other, with a gap
C2_Witness ==
    \E f \in Ids : \E i \in 1..(Len(delivered[f]) - 1) :
        /\ delivered[f][i].old # UnsetVersion
        /\ delivered[f][i + 1].old > delivered[f][i].new

\* C3 (as claimed): no notification on the delivery queue or passed to
\* realm_changed has an empty per_table_changes and a set old version.
C3_NoEmptyChangesWithOld ==
    \A f \in Ids : \A k \in 1..Len(Pushed(f)) :
        ~(Pushed(f)[k].changes = <<>> /\ Pushed(f)[k].old # UnsetVersion)

\* C3 (amended): a notification on the delivery queue or passed to
\* realm_changed has an empty per_table_changes and a set old version only
\* if the group of its file was empty at that old version.
C3_EmptyChangesOnlyFromEmptyGroup ==
    \A f \in Ids : \A k \in 1..Len(Pushed(f)) :
        (Pushed(f)[k].changes = <<>> /\ Pushed(f)[k].old # UnsetVersion)
            => is_empty(f, Pushed(f)[k].old)

\* a job with no changes was kept (empty group) and another was dropped
C3_Witness ==
    \E f \in Ids :
        /\ \E k \in 1..Len(delivered[f]) :
              delivered[f][k].changes = <<>> /\ delivered[f][k].old # UnsetVersion
        /\ \E j \in jobsPushed :
              /\ j[1] = f
              /\ Processed(j)
              /\ \A k \in 1..Len(Pushed(f)) : Pushed(f)[k].old # j[2]

\* C4: registering a file whose database is not empty pushes exactly one
\* seed {old unset, new = current version, no changes} and notifies the
\* signal, registering an empty one pushes nothing; a file has at most one
\* seed, and it is the first of the file's notifications.
C4_SeedOnRegistration ==
    /\ [](\A f \in Ids : \A k \in 1..Len(Pushed(f)) :
              Pushed(f)[k].old = UnsetVersion => k = 1)
    /\ [][(hostpc = "admin" /\ hostpc' = "install") =>
            LET id == Head(todo).id
                version == Len(db[id]) + 1
            IN IF db[id] = <<>>
               THEN UNCHANGED <<m_pending_deliveries, signal>>
               ELSE /\ m_pending_deliveries' =
                         Append(m_pending_deliveries,
                                [old |-> UnsetVersion, new |-> version,
                                 realm |-> [file |-> id, version |-> version],
                                 changes |-> <<>>])
                    /\ signal']_vars

\* a file's seed is followed by a notification computed from a job
C4_Witness ==
    \E f \in Ids :
        /\ Len(Pushed(f)) >= 2
        /\ Pushed(f)[1].old = UnsetVersion
        /\ Pushed(f)[1].new = 2

\* the change-set of the commit of file f from version v to v + 1, which
\* adds a row to one table
CommitChanges(f, v) ==
    [n \in {object_type_for_table_name(t) : t \in TouchedTable(db[f][v])} \ {NoName} |->
        [insertions |-> {Cardinality({i \in 1..(v - 1) : db[f][i] = db[f][v]})},
         modifications |-> {}, deletions |-> {}]]

\* C5: a commit (old, new) reported to the transaction callback that writes
\* to a table with an object type name gets at most one notification, with
\* old, new, the handle pinned at old and exactly the change sets of such
\* tables; it has got it once the worker is done with the job, and the
\* consumer has it once the delivery queue holds nothing of the file
\* (unless the notifier was destroyed). No notification holds a reserved
\* table or an empty change set.
C5_OneNotificationPerCommit ==
    /\ \A f \in Ids : \A k \in 1..Len(Pushed(f)) :
          \A n \in DOMAIN Pushed(f)[k].changes :
              n # NoName /\ ~empty(Pushed(f)[k].changes[n])
    /\ \A j \in jobsPushed :
          TouchesObjectType(j[1], j[2]) =>
            LET f == j[1]
                of(q) == {k \in 1..Len(q) : q[k].old = j[2] /\ q[k].new = j[3]}
            IN /\ Cardinality(of(Pushed(f))) <= 1
               /\ \A k \in of(Pushed(f)) :
                     /\ Pushed(f)[k].realm = [file |-> f, version |-> j[2]]
                     /\ Pushed(f)[k].changes = CommitChanges(f, j[2])
               /\ (Processed(j) /\ hostpc # "destroyed")
                     => Cardinality(of(Pushed(f))) = 1
               /\ (Processed(j) /\ hostpc # "destroyed" /\ Pending(f) = <<>>)
                     => Cardinality(of(delivered[f])) = 1

\* the consumer got the notification of a commit to a table with an object
\* type name, made when the group also held a reserved table
C5_Witness ==
    \E f \in Ids : \E k \in 1..Len(delivered[f]) :
        /\ delivered[f][k].old # UnsetVersion
        /\ delivered[f][k].changes # <<>>
        /\ "pk" \in TablesAt(f, delivered[f][k].old)

\* the ids of the entries the filter rejects
FilteredIds == {e.id : e \in {x \in AdminEntries : ~filter_callback(x.path)}}

C7_PauseResume ==
    /\ [](has_pending <=> Len(m_pending_deliveries) > 0)
    /\ [][m_waiting => delivered' = delivered]_vars
    /\ [][(hostpc = "drain" /\ drainBy = "resume" /\ resumeMark # <<>>
              /\ delivered' # delivered) =>
            LET n == Head(resumeMark)
            IN delivered' = [delivered EXCEPT ![n.realm.file] = Append(@, n)]]_vars
    /\ [][(hostpc = "drain" /\ drainBy = "resume" /\ hostpc' # "drain" /\ ~m_waiting) =>
            (resumeMark = <<>> /\ m_pending_deliveries = <<>>)]_vars

\* resume() found two notifications queued during the pause
C7_Witness ==
    /\ hostpc = "drain"
    /\ drainBy = "resume"
    /\ Len(resumeMark) >= 2

\* C8: register_realm for an id already in the watch set changes nothing:
\* entry, transaction callback and delivery queue are as before, the signal
\* is not notified and the filter is not consulted; entries are never
\* removed nor changed.
C8_RegisterIdempotent ==
    /\ [][(hostpc = "admin" /\ todo # <<>> /\ Head(todo).id \in DOMAIN m_listen_entries
              /\ <<hostpc, todo>>' # <<hostpc, todo>>) =>
            /\ UNCHANGED <<m_listen_entries, transaction_callback, m_pending_deliveries,
                           signal, m_work_queue>>
            /\ lastFilter' = NoName]_vars
    /\ [][\A id \in DOMAIN m_listen_entries :
            id \in DOMAIN m_listen_entries' /\ m_listen_entries'[id] = m_listen_entries[id]]_vars

\* a later enumeration of the table has called register_realm again for
\* the watched first row, whose database is not empty
C8_Witness ==
    /\ hostpc = "admin"
    /\ ~wasFirst
    /\ Len(adminTable) = 2
    /\ Len(todo) = 1
    /\ empty(feedChanges)
    /\ adminTable[1].id \in transaction_callback
    /\ db[adminTable[1].id] # <<>>

\* the host loop runs the admin notification callback
Delivers == hostpc = "idle" /\ hostpc' = "admin"

\* the admin notification callback invokes the registration callback for
\* the next row of its loop
Reports == hostpc = "admin" /\ todo # <<>> /\ <<hostpc, todo>>' # <<hostpc, todo>>

InsertedRows(c, table) ==
    LET at(k) == CHOOSE i \in c.insertions : Cardinality({x \in c.insertions : x < i}) = k - 1
    IN [k \in 1..Cardinality(c.insertions) |-> table[at(k)]]

C11_SnapshotsPinned ==
    /\ [](note # NoNotification => handles[1] = note.realm)
    /\ [][snapLog' # snapLog =>
            LET e == snapLog'[Len(snapLog')]
                at == IF e.call = "old" THEN note.old ELSE note.new
            IN /\ snapLog' = Append(snapLog, e)
               /\ note' = note
               /\ (e.ret = NullRealm) <=> (e.call = "old" /\ note.old = UnsetVersion)
               /\ IF e.ret = NullRealm
                  THEN handles' = handles
                  ELSE /\ e.ret \notin DOMAIN handles
                       /\ handles' = [k \in DOMAIN handles \cup {e.ret} |->
                                        IF k = e.ret
                                        THEN [file |-> note.realm.file, version |-> at]
                                        ELSE handles[k]]]_vars

\* on the notification of a job, get_old_realm was called twice and
\* get_new_realm once
C11_Witness ==
    /\ note.old # UnsetVersion
    /\ Len(snapLog) = 3
    /\ snapLog[1].call = "old"
    /\ snapLog[2].call = "old"
    /\ snapLog[1].ret # snapLog[2].ret
    /\ snapLog[3].call = "new"
    /\ handles[snapLog[3].ret].version = note.new

\* the object notifier runs the notification callback of register_query
Observes == observer = "attached" /\ toObserve # "none" /\ toObserve' = "none"

\* C12: the user callback of a registered query is invoked at most once:
\* not by an observation that finds status 0 and carries no error, once by
\* the first observation that finds another status or carries an error,
\* and never after it, the observer being detached by that delivery.
C12_CallbackAtMostOnce ==
    /\ [](Len(cbLog) <= 1)
    /\ []((observer = "detached") <=> (Len(cbLog) = 1))
    /\ [](observer # "attached" => toObserve = "none")
    /\ [][Observes =>
            IF resultSets[1].status = 0 /\ toObserve = "change"
            THEN cbLog' = cbLog /\ observer' = "attached"
            ELSE Len(cbLog') = Len(cbLog) + 1 /\ observer' = "detached"]_vars
    /\ [][observer = "detached" => UNCHANGED <<cbLog, observer, toObserve>>]_vars

\* the callback was invoked for status 1 and the server has since written
\* another status, which nothing observes
C12_Witness ==
    /\ observer = "detached"
    /\ Len(cbLog) = 1
    /\ cbLog[1].error = NoError
    /\ resultSets[1].status = -1
    /\ serverWrites = 2

\* C13: the observation that ends the subscription without an error of
\* the notifier calls back with (the rows of the matches list, no error)
\* if status is 1, and with (empty results, an error carrying the row's
\* error_message) for every other status.
C13_TerminalPayload ==
    [][(Observes /\ toObserve = "change" /\ resultSets[1].status # 0) =>
         cbLog' = Append(cbLog,
                     IF resultSets[1].status = 1
                     THEN [results |-> [list |-> TRUE, rows |-> resultSets[1].matches],
                           error |-> NoError]
                     ELSE [results |-> [list |-> FALSE, rows |-> {}],
                           error |-> [what |-> resultSets[1].error_message]])]_vars

\* status 2, which no enumerator has, ended the subscription with the
\* row's message, though the row has matches
C13_Witness ==
    /\ Len(cbLog) = 1
    /\ cbLog[1].error = [what |-> "bad query"]
    /\ cbLog[1].results = [list |-> FALSE, rows |-> {}]
    /\ resultSets[1].status = 2
    /\ resultSets[1].matches # {}

\* C14: register_query on a database whose sync configuration is absent or
\* not partial fails with the error of the configuration check, whatever
\* the object class; on a partial one it fails iff the object class is not
\* in the schema; a failed call began no write transaction, left
\* __ResultSets and its rows as they were, attached no observer and called
\* nothing back.
C14_RegisterQueryRejects ==
    queryCall # NoCall =>
        /\ thrown = IF sync_config # "partial"
                    THEN "logic_error: not partially synced"
                    ELSE IF queryCall.object_class \notin SchemaClasses
                    THEN "logic_error: type not in schema"
                    ELSE "none"
        /\ thrown # "none" =>
              /\ writeTxns = 0
              /\ resultSets = <<>>
              /\ resultSetsColumns = {}
              /\ observer = "none"
              /\ toObserve = "none"
              /\ cbLog = <<>>
        /\ thrown = "none" => (writeTxns = 1 /\ Len(resultSets) = 1)

\* a call that fails both checks
C14_Witness ==
    /\ sync_config = "full"
    /\ queryCall.object_class = "Cat"
    /\ thrown = "logic_error: not partially synced"

\* C15 (as claimed): get_query_status returns (Uninitialized, "") if no row
\* has the name, and otherwise the row's error_message with its status
\* mapped by status_code_to_state, one of the five states; it leaves the
\* database as it was.
C15_StatusThroughCodeTable ==
    /\ [](lastStatus.state \in SubscriptionStates)
    /\ [][lastStatus' # lastStatus =>
            LET found == {k \in 1..Len(resultSets) :
                             resultSets[k].name = lastStatus'.name}
            IN /\ UNCHANGED <<resultSets, resultSetsColumns, writeTxns>>
               /\ IF found = {}
                  THEN lastStatus'.state = UNINITIALIZED /\ lastStatus'.error = ""
                  ELSE \E k \in found :
                         /\ lastStatus'.state = status_code_to_state(resultSets[k].status)
                         /\ lastStatus'.error = resultSets[k].error_message]_vars

C17_WorkerSurvivesErrors ==
    [][workpc = "calc" => (workpc' = "calc" \/ workpc' = "wait")]_vars

\* the names filter_callback has returned false for
RejectedNames == {e.path : e \in {x \in AdminEntries \cup {SameNameEntry} : x.id \in rejected}}

\* C18 (as claimed): register_realm does not consult the filter for the
\* name of an inserted row if the filter has returned false for that name
\* before.
C18_FilterNotConsultedAgain ==
    [][(Reports /\ ~empty(feedChanges) /\ ~wasFirst /\ Head(todo).path \in RejectedNames)
          => lastFilter' = NoName]_vars

\* C19: the worker, done with a job whose commit changed no table with an
\* object type name, pushes nothing and does not notify the signal if the
\* group at fromVersion is not empty, and pushes {old: fromVersion, new:
\* toVersion, no changes} and notifies the signal if it is empty; a job
\* with such changes is always pushed, with them.
C19_SuppressionRule ==
    [][(workpc = "calc" /\ workpc' = "wait") =>
         LET f == next.realm.file
             from == next.realm.version
             changes == CommitChanges(f, from)
         IN IF changes = <<>> /\ TablesAt(f, from) # {}
            THEN UNCHANGED <<m_pending_deliveries, signal>>
            ELSE /\ m_pending_deliveries' =
                      Append(m_pending_deliveries,
                             [old |-> from, new |-> next.target_version,
                              realm |-> [file |-> f, version |-> from],
                              changes |-> changes])
                 /\ signal']_vars

\* of two commits to reserved tables only, the one made on the empty
\* group has its notification and the other was dropped
C19_Witness ==
    \E f \in Ids :
        /\ Len(db[f]) >= 2
        /\ db[f][1] = "meta"
        /\ db[f][2] = "meta"
        /\ Processed(<<f, 2, 3>>)
        /\ \E k \in 1..Len(Pushed(f)) :
              Pushed(f)[k].old = 1 /\ Pushed(f)[k].changes = <<>>
        /\ \A k \in 1..Len(Pushed(f)) : Pushed(f)[k].old # 2

\* C20: a notification pushed on the delivery queue is passed to
\* realm_changed at most once, by the pop that takes it from the front of
\* the queue, and leaves the queue in no other way while the notifier
\* lives; if the notifier is not destroyed and does not stay paused for
\* ever, the queue is empty again and again, so that every notification
\* pushed is passed eventually.
C20_DeliveredExactlyOnce ==
    /\ [](\A f \in Ids : \A i, j \in 1..Len(Pushed(f)) :
              i < j => Pushed(f)[i] # Pushed(f)[j])
    /\ [][delivered' # delivered =>
            /\ m_pending_deliveries # <<>>
            /\ m_pending_deliveries' = Tail(m_pending_deliveries)
            /\ delivered' = [delivered EXCEPT ![Head(m_pending_deliveries).realm.file] =
                                Append(@, Head(m_pending_deliveries))]]_vars
    /\ [][(m_pending_deliveries' # m_pending_deliveries /\ hostpc' # "destroyed") =>
            \/ delivered' # delivered
            \/ /\ Len(m_pending_deliveries') = Len(m_pending_deliveries) + 1
               /\ SubSeq(m_pending_deliveries', 1, Len(m_pending_deliveries))
                     = m_pending_deliveries
               /\ signal']_vars
    /\ ([]<>(~m_waiting) /\ [](~m_shutdown)) => []<>(m_pending_deliveries = <<>>)

\* on_change, run for the seed's notify(), finds the queue empty after its
\* pop and is about to return when the worker pushes: the notification
\* is left to the on_change run its own notify() causes
C20_Witness ==
    /\ hostpc = "drain"
    /\ drainBy = "signal"
    /\ ~m_waiting
    /\ signal
    /\ \E f \in Ids :
          /\ Len(delivered[f]) = 1
          /\ Len(Pending(f)) = 1
          /\ Pending(f)[1].old # UnsetVersion

\* C23: register_query works in one write transaction. A call that fails
\* (by a check or by a throw between begin and commit) leaves the rows and
\* the columns of __ResultSets as they were, attaches no observer and ends,
\* within the call, with the error; a call that succeeds began exactly one
\* write transaction and added the columns of update_schema and the one
\* row {name: query, matches_property: <object_class>_matches, query,
\* status: 0, error_message: "", query_parse_counter: 0}. The database is
\* never left in a write transaction, and the status of a row changes only
\* by a write of the server.
C23_RegisterQueryAtomic ==
    /\ [](~is_in_transaction)
    /\ [](thrown # "none" => observer = "none" /\ resultSets = <<>> /\ cbLog = <<>>)
    /\ [][queryCall' # queryCall =>
            IF thrown' = "none"
            THEN /\ writeTxns' = writeTxns + 1
                 /\ resultSets' =
                       Append(resultSets,
                              [name |-> queryCall'.query,
                               matches_property |-> <<queryCall'.object_class, "_matches">>,
                               query |-> queryCall'.query, status |-> 0,
                               error_message |-> "", query_parse_counter |-> 0,
                               matches |-> {}])
                 /\ resultSetsColumns' =
                       resultSetsColumns \cup
                       {"matches_property", "query", "status", "error_message",
                        "query_parse_counter", <<queryCall'.object_class, "_matches">>}
                 /\ observer' = "attached"
            ELSE /\ writeTxns' \in {writeTxns, writeTxns + 1}
                 /\ UNCHANGED <<resultSets, resultSetsColumns, observer, toObserve, cbLog>>]_vars
    /\ [][(\E k \in 1..Len(resultSets) :
               k <= Len(resultSets') /\ resultSets'[k].status # resultSets[k].status)
            => serverWrites' = serverWrites + 1]_vars

\* a call of the transaction block threw on a partially synced database
\* with the class in the schema, after the write transaction had begun
C23_Witness ==
    /\ thrown = "runtime_error"
    /\ sync_config = "partial"
    /\ queryCall.object_class = "Dog"
    /\ writeTxns = 1
    /\ resultSets = <<>>

\* C24 (as claimed): registration loses no commit. While the notifier
\* lives, every commit to a file made after register_realm has read the
\* file's version (the file is in m_listen_entries from that step on)
\* is reported to the transaction callback and becomes a job from the
\* version before the commit to the version after it.
C24_RegistrationLosesNoCommit ==
    [][\A f \in Ids :
          (db'[f] # db[f] /\ f \in DOMAIN m_listen_entries /\ ~m_shutdown)
             => <<f, Len(db[f]) + 1, Len(db[f]) + 2>> \in jobsPushed']_vars

\* C26 (as claimed): once the destructor has set m_shutdown, no transaction
\* callback pushes a job (the work queue does not grow and no job is
\* recorded as pushed), on_change is not entered and nothing is passed to
\* realm_changed.
C26_InertAfterShutdown ==
    [][m_shutdown =>
         /\ jobsPushed' = jobsPushed
         /\ Len(m_work_queue') <= Len(m_work_queue)
         /\ hostpc' # "drain"
         /\ delivered' = delivered]_vars

\* the places where a thread waits: for a mutex, on the condition
\* variable, or in join
LockPlaces ==
    {"callback_lock", "lock", "deliver_lock", "seed_lock", "front_lock", "pending_lock",
     "shutdown_lock"}
WaitPlaces == LockPlaces \cup {"blocked", "join"}

\* C21: no thread holds the work-queue mutex and the delivery-queue mutex
\* at the same time. The worker holds the work-queue mutex only from its
\* lock to the pop or the return, and the delivery-queue mutex only for
\* its push; a commit thread holds only the work-queue mutex, for its
\* push; the host holds the work-queue mutex only in the destructor's
\* block and the delivery-queue mutex only in register_realm, on_change
\* and has_pending, and neither when it calls realm_changed. A thread
\* that holds a mutex is never waiting (for a mutex, on the condition
\* variable or in join), so every wait for a mutex ends: no deadlock.
C21_NeverBothMutexes ==
    /\ \A t \in Threads : ~(m_work_queue_mutex = t /\ m_deliver_queue_mutex = t)
    /\ m_work_queue_mutex = "worker" => pc["worker"] \in {"wait", "check"}
    /\ m_deliver_queue_mutex = "worker" => pc["worker"] = "deliver_push"
    /\ \A f \in Ids : /\ m_work_queue_mutex = f => pc[f] = "callback_push"
                      /\ m_deliver_queue_mutex # f
    /\ m_work_queue_mutex = "host" => pc["host"] = "shutdown"
    /\ m_deliver_queue_mutex = "host" => pc["host"] \in {"seed_push", "front", "pending_test"}
    /\ pc["host"] = "realm_changed" =>
          m_work_queue_mutex # "host" /\ m_deliver_queue_mutex # "host"
    /\ \A t \in Threads :
          (m_work_queue_mutex = t \/ m_deliver_queue_mutex = t) => pc[t] \notin WaitPlaces

\* both mutexes are held, by different threads, while the host waits for
\* the delivery-queue mutex and the worker has a job in hand
C21_Witness ==
    /\ m_deliver_queue_mutex = "worker"
    /\ m_work_queue_mutex \in Ids
    /\ pc["host"] = "front_lock"

\* the job as the logs record it
JobKey(job) == <<job.realm.file, job.realm.version, job.target_version>>

\* C22: the jobs the worker has popped are, in order, the first of the
\* jobs the transaction callbacks pushed, no job being pushed twice, and
\* the work queue holds the others in the order of their pushes: a job is
\* popped at most once and in FIFO order. Once m_shutdown is set the
\* worker pops nothing, whatever the queue holds. If m_shutdown is never
\* set, every job pushed is popped, wherever the worker was when the
\* callback pushed it.
C22_JobsPoppedOnceInOrder ==
    /\ [](/\ Len(popLog) <= Len(pushLog)
          /\ SubSeq(pushLog, 1, Len(popLog)) = popLog
          /\ \A i, j \in 1..Len(pushLog) : i < j => pushLog[i] # pushLog[j]
          /\ Len(m_work_queue) = Len(pushLog) - Len(popLog)
          /\ \A k \in 1..Len(m_work_queue) :
                JobKey(m_work_queue[k]) = pushLog[Len(popLog) + k])
    /\ [][m_shutdown => popLog' = popLog]_vars
    /\ [][popLog' # popLog =>
            /\ m_work_queue # <<>>
            /\ popLog' = Append(popLog, JobKey(Head(m_work_queue)))
            /\ m_work_queue' = Tail(m_work_queue)]_vars
    /\ [](~m_shutdown) => []<>(Len(popLog) = Len(pushLog))

\* a job was pushed while the worker computed on the job before it
C22_Witness ==
    /\ pc["worker"] = "compute"
    /\ Len(popLog) = 1
    /\ Len(m_work_queue) = 1
    /\ ~m_shutdown

\* C25: pause() and resume() called inside realm_changed do not break
\* delivery. A pause() inside a callback leaves the callback running, and
\* while m_waiting is set nothing is popped, in whatever call of on_change.
\* A resume() inside a callback runs on_change inside it. In every case a
\* notification is passed to realm_changed only by the pop that takes it
\* from the front of the queue, so that the invocations begin in the order
\* of the queue and none begins twice, and the queue loses nothing in any
\* other way while the notifier lives; if the notifier is not destroyed
\* and does not stay paused for ever, the queue is empty again and again.
C25_ReentrantPauseResume ==
    /\ [][(m_waiting /\ m_waiting') => delivered' = delivered]_vars
    /\ [][(stack # <<>> /\ ~m_waiting /\ m_waiting') =>
            /\ Len(stack') = Len(stack)
            /\ stack'[Len(stack')].fn = "realm_changed"]_vars
    /\ [][(stack # <<>> /\ m_waiting /\ ~m_waiting') =>
            /\ Len(stack') = Len(stack) + 1
            /\ stack'[Len(stack')].fn = "on_change"]_vars
    /\ [](\A f \in Ids : \A i, j \in 1..Len(Pushed(f)) :
            i < j => Pushed(f)[i] # Pushed(f)[j])
    /\ [][delivered' # delivered =>
            /\ ~m_waiting
            /\ m_pending_deliveries # <<>>
            /\ m_pending_deliveries' = Tail(m_pending_deliveries)
            /\ delivered' = [delivered EXCEPT ![Head(m_pending_deliveries).realm.file] =
                                Append(@, Head(m_pending_deliveries))]]_vars
    /\ [][(m_pending_deliveries' # m_pending_deliveries /\ hostpc' # "destroyed") =>
            \/ delivered' # delivered
            \/ /\ Len(m_pending_deliveries') = Len(m_pending_deliveries) + 1
               /\ SubSeq(m_pending_deliveries', 1, Len(m_pending_deliveries))
                     = m_pending_deliveries]_vars
    /\ ([]<>(~m_waiting) /\ [](~m_shutdown)) => []<>(m_pending_deliveries = <<>>)

\* a callback called resume(), the on_change it entered called a second
\* callback, and that one has called pause()
C25_Witness ==
    /\ Len(stack) = 4
    /\ stack[2].calls > 0
    /\ stack[4].fn = "realm_changed"
    /\ stack[4].calls > 0
    /\ m_waiting
====
